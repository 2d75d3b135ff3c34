SPECIFICATION FairSpec
CONSTANTS
  SD = {s1}
  Worker = {w1, w2, w3}
  Provisioner = {w1}
  Verbs = {"UNLOCKUPDATE", "LOCKPROVISIONING"}
  MaxLosses = 1
INVARIANT TypeOK
INVARIANT LockHasOwner
INVARIANT NeverLockedBeforeProvisioning
INVARIANT ProvisioningMarked
PROPERTY LockReleased
