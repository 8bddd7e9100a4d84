SPECIFICATION Spec
CONSTANTS
  r1 = r1
  r2 = r2
  r3 = r3
  ann = ann
  bob = bob
  Requests = {r1, r2, r3}
  Mailboxes = {ann, bob}
  DefaultAdmins = {bob}
  AskedRoles = {"ADMIN", "AUDITOR"}
INVARIANTS
  SomeAdministrator
  OneAccountPerMailbox
  AnswersHold
SYMMETRY Symmetry
CHECK_DEADLOCK FALSE
