CONSTANTS
  abuse = abuse
  postmaster = postmaster
  alice = alice
  bob = bob
  None = None
  Mailboxes = {abuse, postmaster}
  Elsewhere = {alice, bob}
  MaxRcpt = 3
SPECIFICATION Spec
INVARIANTS
  EnvelopeAgrees
  AnsweredIsStored
  RefusedIsNotStored
  RelayOnlyForPermitted
CHECK_DEADLOCK FALSE
