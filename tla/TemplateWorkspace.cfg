SPECIFICATION Spec
SYMMETRY Symmetry
CHECK_DEADLOCK FALSE
CONSTANTS
  o1 = o1  o2 = o2  o3 = o3  welcome = welcome  offer = offer
  None = None
  Starter = Starter
  Ops = {o1, o2, o3}
  Entries = {welcome, offer}
  Welcome = welcome
  Changes <- MCChanges
  Modes <- MCModes
INVARIANT Inv AcknowledgedCommitsStay
