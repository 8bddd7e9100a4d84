------------------------- MODULE RegistrationProofs -------------------------
(***************************************************************************)
(* The safety of registration, for any number of requests and mailboxes.   *)
(* That an administrator is there needs to be known of a request that has  *)
(* chosen USER: it counted an account, and accounts stay.  That 409 is     *)
(* never given for the request's own row needs its row to be absent until  *)
(* it inserts.                                                             *)
(***************************************************************************)
EXTENDS Registration, TLAPS

\* A request about to insert a user counted an account.
UsersCameLater ==
  \A r \in Requests : at[r] = "insert" /\ role[r] = "USER" => users # {}

\* Rows hold addresses in their plain spelling, a mailbox once, and no row is
\* made by a request that has not inserted.
RowsAreOwn ==
  \A u \in users :
    /\ u.email = Lower(u.email)
    /\ at[u.by] \notin {"none", "look_up", "count", "insert", "conflict"}
    /\ u.email = Lower(sent[u.by].email)

\* A request that goes on to refresh has its row.
RowIsThere ==
  \A r \in Requests : at[r] \in {"refresh", "created"} =>
    \E u \in users : u.email = Lower(sent[r].email) /\ u.by = r

\* A conflict was with a row.
ConflictIsTrue ==
  \A r \in Requests : at[r] = "conflict" =>
    \E u \in users : u.email = Lower(sent[r].email)

IInv ==
  /\ TypeOK /\ SomeAdministrator /\ OneAccountPerMailbox
  /\ UsersCameLater /\ RowsAreOwn /\ RowIsThere /\ ConflictIsTrue
-----------------------------------------------------------------------------
LEMMA LowerFacts ==
  ASSUME NEW a \in Addresses, NEW b \in Addresses
  PROVE  /\ Lower(a) \in Addresses
         /\ Lower(a).mailbox = a.mailbox
         /\ Lower(Lower(a)) = Lower(a)
         /\ a = Lower(a) /\ b = Lower(b) /\ a.mailbox = b.mailbox => a = b
         /\ a.mailbox = b.mailbox => Lower(a) = Lower(b)
BY DEF Lower, Addresses

LEMMA RoleForType == ASSUME NEW asked PROVE RoleFor(asked) \in Roles
BY DEF RoleFor, Roles

LEMMA InitIInv == Init => IInv
BY DEF Init, IInv, TypeOK, SomeAdministrator, OneAccountPerMailbox, UsersCameLater,
       RowsAreOwn, RowIsThere, ConflictIsTrue, Roles

\* Every step moves one request; only Insert adds a row, one of its own, and the
\* request leaves the steps before it.
Moves(r) ==
  /\ sent' = sent
  /\ \A q \in Requests \ {r} : at'[q] = at[q] /\ role'[q] = role[q]

LEMMA StepMoves ==
  ASSUME TypeOK, NEW r \in Requests, Step(r)
  PROVE  TypeOK' /\ Moves(r)
<1>1. CASE Begin(r)
  BY <1>1 DEF Begin, Goto, TypeOK, Moves
<1>2. CASE LookUp(r)
  BY <1>2 DEF LookUp, Goto, TypeOK, Moves, Answers
<1>3. CASE ChooseRole(r)
  <2>1. role' \in [Requests -> Roles]
    BY <1>3, RoleForType DEF ChooseRole, TypeOK, Roles
  <2>2. QED
    BY <1>3, <2>1 DEF ChooseRole, Goto, TypeOK, Moves, Answers
<1>4. CASE Insert(r)
  <2>1. sent[r].email \in Addresses
    BY DEF TypeOK
  <2>2. [email |-> Lower(sent[r].email), role |-> role[r], by |-> r]
          \in [email : Addresses, role : Roles, by : Requests]
    BY <2>1, LowerFacts DEF TypeOK
  <2>3. users' \subseteq [email : Addresses, role : Roles, by : Requests]
    BY <1>4, <2>2 DEF Insert, TypeOK
  <2>4. QED
    BY <1>4, <2>3 DEF Insert, Goto, TypeOK, Moves, Answers
<1>5. CASE Refresh(r)
  BY <1>5 DEF Refresh, Goto, TypeOK, Moves, Answers
<1>6. QED
  BY <1>1, <1>2, <1>3, <1>4, <1>5 DEF Step

\* A step that adds no row.
LEMMA QuietStep ==
  ASSUME IInv, NEW r \in Requests, Step(r), users' = users
  PROVE  IInv'
<1>0. TypeOK' /\ Moves(r)
  BY StepMoves DEF IInv
<1> DEFINE row == [email |-> Lower(sent[r].email), role |-> role[r], by |-> r]
<1>a. at'[r] = "refresh" => FALSE
  <2>1. ASSUME Insert(r), at'[r] = "refresh" PROVE FALSE
    <3>1. ~Holds(row.email) /\ row \in users
      BY <2>1 DEF Insert, Goto, IInv, TypeOK
    <3>2. QED
      BY <3>1 DEF Holds
  <2>2. QED
    BY <2>1 DEF IInv, TypeOK, Step, Begin, LookUp, ChooseRole, Refresh, Goto
<1>1. SomeAdministrator' /\ OneAccountPerMailbox'
  BY DEF IInv, SomeAdministrator, OneAccountPerMailbox
<1>2. UsersCameLater'
  <2>1. at'[r] = "insert" /\ role'[r] = "USER" => users # {}
    BY DEF IInv, TypeOK, Step, Begin, LookUp, ChooseRole, Insert, Refresh, Goto
  <2>2. QED
    BY <1>0, <2>1 DEF IInv, UsersCameLater, Moves
<1>3. RowsAreOwn'
  <2>1. ASSUME NEW u \in users, u.by = r
        PROVE  at'[r] \notin {"none", "look_up", "count", "insert", "conflict"}
    BY <2>1 DEF IInv, TypeOK, RowsAreOwn, Step, Begin, LookUp, ChooseRole, Insert, Refresh, Goto
  <2>2. \A u \in users : u.by \in Requests
    BY DEF IInv, TypeOK
  <2>3. QED
    BY <1>0, <2>1, <2>2 DEF IInv, RowsAreOwn, Moves
<1>4. RowIsThere'
  <2>1. at'[r] \in {"refresh", "created"} => at[r] = "refresh"
    BY <1>a DEF IInv, TypeOK, Step, Begin, LookUp, ChooseRole, Insert, Refresh, Goto
  <2>2. QED
    BY <1>0, <2>1 DEF IInv, RowIsThere, Moves
<1>5. ConflictIsTrue'
  <2>1. at'[r] = "conflict" => \E u \in users : u.email = Lower(sent[r].email)
    BY DEF IInv, TypeOK, Step, Begin, LookUp, ChooseRole, Insert, Refresh, Goto, Holds
  <2>2. QED
    BY <1>0, <2>1 DEF IInv, ConflictIsTrue, Moves
<1>6. QED
  BY <1>0, <1>1, <1>2, <1>3, <1>4, <1>5 DEF IInv

\* A step that adds a row: nobody else held the address.
LEMMA AddingStep ==
  ASSUME IInv, NEW r \in Requests, Insert(r), users' # users
  PROVE  IInv'
<1> DEFINE row == [email |-> Lower(sent[r].email), role |-> role[r], by |-> r]
<1>0. TypeOK' /\ Moves(r)
  BY StepMoves DEF IInv, Step
<1>1. /\ users' = users \cup {row}
      /\ ~Holds(row.email)
      /\ at[r] = "insert" /\ at'[r] \in {"refresh", "unavailable"} /\ role' = role
  BY DEF Insert, Goto, IInv, TypeOK
<1>2. sent[r].email \in Addresses /\ Lower(sent[r].email) \in Addresses
  BY LowerFacts DEF IInv, TypeOK
<1>3. row.email = Lower(row.email) /\ row.by = r /\ row.role = role[r]
  BY <1>2, LowerFacts
<1>4. \A u \in users : u.email \in Addresses /\ u.by \in Requests
  BY DEF IInv, TypeOK
<1>5. SomeAdministrator'
  <2>1. CASE role[r] = "USER"
    BY <1>1, <2>1 DEF IInv, UsersCameLater, SomeAdministrator
  <2>2. CASE role[r] = "ADMIN"
    BY <1>1, <1>3, <2>2 DEF SomeAdministrator
  <2>3. QED
    BY <2>1, <2>2 DEF IInv, TypeOK, Roles
<1>6. OneAccountPerMailbox'
  <2>1. \A u \in users : u.email.mailbox # row.email.mailbox
    BY <1>1, <1>2, <1>3, <1>4, LowerFacts DEF IInv, RowsAreOwn, Holds
  <2>2. QED
    BY <1>1, <2>1 DEF IInv, OneAccountPerMailbox
<1>7. UsersCameLater'
  BY <1>1 DEF UsersCameLater
<1>8. RowsAreOwn'
  <2>1. ASSUME NEW u \in users
        PROVE  /\ u.email = Lower(u.email)
               /\ at'[u.by] \notin {"none", "look_up", "count", "insert", "conflict"}
               /\ u.email = Lower(sent'[u.by].email)
    BY <1>0, <1>1, <1>4, <2>1 DEF IInv, RowsAreOwn, Moves
  <2>2. /\ row.email = Lower(row.email)
        /\ at'[row.by] \notin {"none", "look_up", "count", "insert", "conflict"}
        /\ row.email = Lower(sent'[row.by].email)
    BY <1>0, <1>1, <1>3 DEF Moves
  <2>3. QED
    BY <1>1, <2>1, <2>2 DEF RowsAreOwn
<1>9. RowIsThere'
  <2>1. row \in users' /\ row.email = Lower(sent'[r].email) /\ row.by = r
    BY <1>0, <1>1 DEF Moves
  <2>2. QED
    BY <1>0, <1>1, <2>1 DEF IInv, RowIsThere, Moves
<1>10. ConflictIsTrue'
  BY <1>0, <1>1 DEF IInv, ConflictIsTrue, Moves
<1>11. QED
  BY <1>0, <1>5, <1>6, <1>7, <1>8, <1>9, <1>10 DEF IInv

LEMMA NextIInv == IInv /\ [Next]_vars => IInv'
<1> SUFFICES ASSUME IInv, [Next]_vars PROVE IInv'
  OBVIOUS
<1>1. CASE UNCHANGED vars
  BY <1>1 DEF vars, IInv, TypeOK, SomeAdministrator, OneAccountPerMailbox, UsersCameLater,
              RowsAreOwn, RowIsThere, ConflictIsTrue
<1>2. ASSUME NEW r \in Requests, Step(r) PROVE IInv'
  <2>1. CASE users' = users
    BY <1>2, <2>1, QuietStep
  <2>2. CASE users' # users
    <3>1. Insert(r)
      BY <1>2, <2>2 DEF Step, Begin, LookUp, ChooseRole, Refresh
    <3>2. QED
      BY <2>2, <3>1, AddingStep
  <2>3. QED
    BY <2>1, <2>2
<1>3. QED
  BY <1>1, <1>2 DEF Next

LEMMA Invariance == Spec => []IInv
BY InitIInv, NextIInv, PTL DEF Spec
-----------------------------------------------------------------------------
\* However registrations interleave and fail, there is an administrator as soon
\* as there is an account (_registration_role).
THEOREM AdministratorTheorem == Spec => []SomeAdministrator
<1>1. IInv => SomeAdministrator
  BY DEF IInv
<1>2. QED
  BY <1>1, Invariance, PTL

\* A mailbox never has two accounts, whatever the spelling of its address.
THEOREM OneAccountTheorem == Spec => []OneAccountPerMailbox
<1>1. IInv => OneAccountPerMailbox
  BY DEF IInv
<1>2. QED
  BY <1>1, Invariance, PTL

\* The answers 201 and 409 of register can be relied on.
THEOREM AnswersTheorem == Spec => []AnswersHold
<1>1. IInv => AnswersHold
  <2> SUFFICES ASSUME IInv, NEW r \in Requests
               PROVE  /\ at[r] = "created" =>
                           \A address \in Addresses :
                             address.mailbox = sent[r].email.mailbox => LoginSucceeds(address, r)
                      /\ at[r] = "conflict" =>
                           \E u \in users : u.email.mailbox = sent[r].email.mailbox /\ u.by # r
    BY DEF AnswersHold
  <2>1. sent[r].email \in Addresses
    BY DEF IInv, TypeOK
  <2>2. ASSUME at[r] = "created", NEW address \in Addresses,
               address.mailbox = sent[r].email.mailbox
        PROVE  LoginSucceeds(address, r)
    <3>1. Lower(address) = Lower(sent[r].email)
      BY <2>1, <2>2, LowerFacts
    <3>2. QED
      BY <2>2, <3>1 DEF IInv, RowIsThere, LoginSucceeds
  <2>3. ASSUME at[r] = "conflict"
        PROVE  \E u \in users : u.email.mailbox = sent[r].email.mailbox /\ u.by # r
    <3>1. PICK u \in users : u.email = Lower(sent[r].email)
      BY <2>3 DEF IInv, ConflictIsTrue
    <3>2. u.email.mailbox = sent[r].email.mailbox
      BY <2>1, <3>1, LowerFacts
    <3>3. u.by # r
      BY <2>3 DEF IInv, RowsAreOwn
    <3>4. QED
      BY <3>2, <3>3
  <2>4. QED
    BY <2>2, <2>3
<1>2. QED
  BY <1>1, Invariance, PTL
=============================================================================
