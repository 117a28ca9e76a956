\* Three subscribers under every policy; clients with and without manners.
CONSTANTS
  Subscribers = {s1, s2, s3}
  NoSubscriber = NoSubscriber
  Policies = {"Raise", "Allow", "Allow_and_send_last_value"}
  MaxWrites = 3
  Manners <- MCManners
SPECIFICATION Spec
INVARIANTS
  ArraysConsistent
  CapturedSlotsStable
  NeverStuckWriting
  OnCloseCalled
PROPERTIES
  NoGapNoRepetition
  ImplementsBusSpec
