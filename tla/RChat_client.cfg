CONSTANTS
  a = a
  b = b
  Servers = {s1, s2, s3}
  Senders = {a, b}
  MAX_PROFILES = 2
  CONTACTS_MAX = 1
  HISTORY_MAX = 2
  Mail <- Twice
  SENDS_MAX = 1
  None = None
SPECIFICATION FairRChatSpec
INVARIANTS
  AckedIsStored
  HistoryHonest
  SidesAgree
PROPERTY
  ContactsAreHeard
