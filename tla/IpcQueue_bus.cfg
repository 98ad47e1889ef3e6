SPECIFICATION BusSpec
CONSTANTS
  MAX_IPC_MSGS = 3
  Receivers = {0}
  MaxPosts = 14
  MaxOverflows = 2
INVARIANTS WaitingFillWindow
PROPERTIES MailboxSpec
CHECK_DEADLOCK FALSE
