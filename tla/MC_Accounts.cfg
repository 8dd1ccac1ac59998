SPECIFICATION Spec
CONSTANTS
  r1 = r1
  r2 = r2
  Requests = {r1, r2}
  demo = demo
  admin = admin
  ann = ann
  bob = bob
  Names = {demo, admin, ann, bob}
  NewNames = {ann, bob}
  contact = contact
  mail = mail
  post = post
  Emails = {contact, mail, post}
  NewEmails = {mail, post}
  AttributeLists <- GivenAttributes
  Rights = {"read", "write", "manage"}
  GrantLists <- GivenLists
  DefaultGrants <- NewUsers
  MaxUsers = 3
  MailEnabled = TRUE
  Shipped <- ShippedTables
  MaxRequests = 3
  MaxOverlaps = 1
SYMMETRY Alike
INVARIANTS
  TypeOK
  UniqueRows
  SettledKept
PROPERTIES
  LimitKept
  BookKept
CHECK_DEADLOCK FALSE
