---------------------------- MODULE Registration ----------------------------
(***************************************************************************)
(* Accounts: POST /auth/register looks the address up, counts the accounts *)
(* to choose the role, and inserts the row, each against what is committed *)
(* at that moment; requests run side by side on pool threads.  Nothing     *)
(* deletes an account or changes its role.  Login only reads.              *)
(*                                                                         *)
(* An address is a mailbox in some spelling; lower() gives its plain one.  *)
(* Hashing the password may raise before the row exists; a commit whose    *)
(* connection is lost may have been applied.                               *)
(***************************************************************************)
CONSTANTS
  Requests,       \* the registrations that are sent
  Mailboxes,
  DefaultAdmins,  \* the mailboxes listed in DEFAULT_ADMIN_EMAILS
  AskedRoles      \* the role field, stripped and in capitals, USER if empty

ASSUME DefaultAdminsAssumption == DefaultAdmins \subseteq Mailboxes

VARIABLES
  users,    \* the rows of users: address, role, and the request that made them
  at,       \* at[r]: the step request r takes next, or its answer
  sent,     \* sent[r]: the address and the role it carries
  role      \* role[r]: the role chosen for its row

vars == <<users, at, sent, role>>

Roles == {"ADMIN", "USER"}
Addresses == [mailbox : Mailboxes, spelling : {"lower", "mixed"}]
Answers == {"created", "conflict", "unavailable", "raised"}

TypeOK ==
  /\ users \subseteq [email : Addresses, role : Roles, by : Requests]
  /\ at \in [Requests -> {"none", "look_up", "count", "insert", "refresh"} \cup Answers]
  /\ sent \in [Requests -> [email : Addresses, asked : AskedRoles]]
  /\ role \in [Requests -> Roles]

Init ==
  /\ users = {}
  /\ at = [r \in Requests |-> "none"]
  /\ sent \in [Requests -> [email : Addresses, asked : AskedRoles]]
  /\ role = [r \in Requests |-> "USER"]

Goto(r, next) == at' = [at EXCEPT ![r] = next]
-----------------------------------------------------------------------------
(* Mutants: plausible bugs in the definitions below. *)

\* Lower, leaving the address as it was typed.
AsTyped(address) == address

\* ChooseRole, without the count.
ChooseUsualRole(r) ==
  /\ at[r] = "count"
  /\ role' = [role EXCEPT ![r] = IF sent[r].email.mailbox \in DefaultAdmins
                                 THEN "ADMIN" ELSE "USER"]
  /\ Goto(r, "insert")
  /\ UNCHANGED <<users, sent>>

\* Insert, where a connection lost while it commits is taken for a conflict.
InsertOrConflict(r) ==
  LET row == [email |-> [sent[r].email EXCEPT !.spelling = "lower"], role |-> role[r], by |-> r]
  IN /\ at[r] = "insert"
     /\ users' \in {users, users \cup {row}}
     /\ Goto(r, IF users' = users THEN "conflict" ELSE "refresh")
     /\ UNCHANGED <<sent, role>>
-----------------------------------------------------------------------------
\* payload.email.lower()
Lower(address) == [address EXCEPT !.spelling = "lower"]

Holds(address) == \E u \in users : u.email = address

\* A role field with anything else counts for USER.
RoleFor(asked) == IF asked \in Roles THEN asked ELSE "USER"

Begin(r) == at[r] = "none" /\ Goto(r, "look_up") /\ UNCHANGED <<users, sent, role>>

\* The account exists already: 409.
LookUp(r) ==
  /\ at[r] = "look_up"
  /\ \/ Goto(r, IF Holds(Lower(sent[r].email)) THEN "conflict" ELSE "count")
     \/ Goto(r, "unavailable")
  /\ UNCHANGED <<users, sent, role>>

\* _registration_role, after the password was hashed.
ChooseRole(r) ==
  /\ at[r] = "count"
  /\ \/ /\ role' = [role EXCEPT ![r] =
              IF users = {} \/ sent[r].email.mailbox \in DefaultAdmins THEN "ADMIN"
              ELSE RoleFor(sent[r].asked)]
        /\ Goto(r, "insert")
     \/ Goto(r, "unavailable") /\ UNCHANGED role
     \/ Goto(r, "raised") /\ UNCHANGED role
  /\ UNCHANGED <<users, sent>>

(***************************************************************************)
(* Flush and commit; the unique index makes an insert wait for another of  *)
(* the same address and fail when that one commits, which answers 409.     *)
(***************************************************************************)
Insert(r) ==
  LET row == [email |-> Lower(sent[r].email), role |-> role[r], by |-> r]
  IN /\ at[r] = "insert"
     /\ \/ Holds(row.email) /\ Goto(r, "conflict") /\ UNCHANGED users
        \/ ~Holds(row.email) /\ Goto(r, "refresh") /\ users' = users \cup {row}
        \/ ~Holds(row.email) /\ Goto(r, "unavailable") /\ users' = users \cup {row}
        \/ Goto(r, "unavailable") /\ UNCHANGED users
     /\ UNCHANGED <<sent, role>>

\* The row is read back; that the log entry fails is not seen.
Refresh(r) ==
  /\ at[r] = "refresh"
  /\ Goto(r, "created") \/ Goto(r, "unavailable")
  /\ UNCHANGED <<users, sent, role>>

Step(r) == Begin(r) \/ LookUp(r) \/ ChooseRole(r) \/ Insert(r) \/ Refresh(r)

Next == \E r \in Requests : Step(r)

Spec == Init /\ [][Next]_vars

\* A login with an address and the password of request r: the account found by
\* the address, and its hash compared.
LoginSucceeds(address, r) == \E u \in users : u.email = Lower(address) /\ u.by = r
-----------------------------------------------------------------------------
(* Properties *)

(***************************************************************************)
(* A system with accounts has an administrator: no order of registrations, *)
(* conflicts and lost commits leaves only users, whom nothing could raise. *)
(***************************************************************************)
SomeAdministrator == users # {} => \E u \in users : u.role = "ADMIN"

\* One mailbox, one account, in whatever spelling it registers.
OneAccountPerMailbox ==
  \A u, v \in users : u.email.mailbox = v.email.mailbox => u = v

(***************************************************************************)
(* An answer can be relied on: 201 means that the mailbox, in any spelling *)
(* and with this password, can log in; 409 that someone else's request     *)
(* has the mailbox, not that this one did and was not told.                *)
(***************************************************************************)
AnswersHold ==
  \A r \in Requests :
    /\ at[r] = "created" =>
         \A address \in Addresses :
           address.mailbox = sent[r].email.mailbox => LoginSucceeds(address, r)
    /\ at[r] = "conflict" =>
         \E u \in users : u.email.mailbox = sent[r].email.mailbox /\ u.by # r

(***************************************************************************)
(* "The first registered account becomes ADMIN; later registrations become *)
(* USER unless their email is listed in DEFAULT_ADMIN_EMAILS." (README)    *)
(***************************************************************************)
OnlyFirstIsAdmin ==
  LET Admins == {u \in users : u.role = "ADMIN" /\ u.email.mailbox \notin DefaultAdmins}
  IN \A u, v \in Admins : u = v
=============================================================================
