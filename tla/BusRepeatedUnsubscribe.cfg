\* An unsubscribe may be repeated within a write; nothing raises.
CONSTANTS
  Subscribers = {s1, s2, s3}
  NoSubscriber = NoSubscriber
  Policies = {"Raise", "Allow", "Allow_and_send_last_value"}
  MaxWrites = 3
  Manners <- Repeating
SPECIFICATION Spec
SYMMETRY Symmetry
INVARIANT
  AlwaysLeavesWriting
