SPECIFICATION Spec
CHECK_DEADLOCK FALSE
CONSTANTS
  r1 = r1  r2 = r2  r3 = r3 key = key  a = a  b = b  own = own  box = box
  None = None
  Earlier = Earlier
  Requests = {r1, r2, r3}
  Keys = {key}
  KeyOf <- MCKeyOf
  Contacts = {a, b}
  To <- MCTo
  Senders = {own, box}
  From <- MCFrom
  Sandboxes = {box}
  Members = {b}
  Attached = {r1, r2}
  MaxAtWork = 2
  MaxExpiries = 1
  Notices <- MCNotices
  MaxIngests = 2
  Modes <- MCModes
INVARIANT Inv AcceptedCanBeSent NothingLeaks AnsweredNoticesTookEffect
PROPERTY SuppressionsStick
