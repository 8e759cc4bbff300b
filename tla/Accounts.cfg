CONSTANTS
  Requests = {r1, r2, r3}
  r1 = r1
  r2 = r2
  r3 = r3
  ann = ann
  bob = bob
  chat = chat
  ea = ea
  eb = eb
  ec = ec
  x = x
  y = y
  OldUsers = {ann, bob}
  OldSessions = {chat}
  Emails = {ea, eb, ec}
  Texts = {x, y}
  NewName = x
  NoRow = NoRow
  Unset = Unset
  InitialUsers <- MCUsers
  InitialSessions <- MCSessions
  MayAsk <- MCMayAsk
SPECIFICATION Spec
INVARIANTS TypeOK OneUserPerAddress SessionsHaveUser ErrorsAreRaces DeadlocksAreOfUsers
PROPERTIES StoreSpec OnlyOwnDataChanges ChangesAreAskedOrReadBack EveryRequestEnds
CHECK_DEADLOCK FALSE
