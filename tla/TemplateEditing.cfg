SPECIFICATION Spec
SYMMETRY Symmetry
CHECK_DEADLOCK FALSE
CONSTANTS
  welcome = welcome  offer = offer
  t1 = t1  t2 = t2  t3 = t3
  r1 = r1  r2 = r2
  None = None
  greeting = greeting
  Templates = {t1, t2, t3}
  Entries = {welcome, offer}
  Requests = {r1, r2}
  Names = {greeting}
  MaxNumber = 3
  MaxExact = 3
  Versions <- MCVersions
  Own = offer
  Subject = t1
  LinkRequest = r1
  Position <- MCPosition
  MaxEdits = 3
  MaxSwitches = 2
  MaxAtWork = 2
  Modes <- MCModes
INVARIANT Inv SavedWhereTyped CleanIsSaved PublishedIsSaved SendsMatchTheBadge
