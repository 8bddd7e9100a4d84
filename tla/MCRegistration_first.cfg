SPECIFICATION Spec
CONSTANTS
  r1 = r1
  r2 = r2
  r3 = r3
  ann = ann
  bob = bob
  Requests = {r1, r2}
  Mailboxes = {ann, bob}
  DefaultAdmins = {}
  AskedRoles = {"USER"}
INVARIANT OnlyFirstIsAdmin
CHECK_DEADLOCK FALSE
