SPECIFICATION LiveSpec
CONSTANTS
  On = On  Off = Off  Ok = Ok  Err = Err  Panic = Panic  Unknown = Unknown  None = None
  Other = Other  Session = Session
  c1 = c1  c2 = c2
  Clients = {c1, c2}
  Users <- MCUsers
  Requests <- MCRequests
  Settings <- MCSettings
  MaxLines = 1
  MaxLate = 1
  Tries = 2
  Movies = 2
  DetailLines = 2
  RetryLimit = 2
  Inputs = 2
INVARIANTS
  DriversTypeOK
  FairWeather
  AtMostTwice
  DetailsAreOwn
PROPERTIES Promise CallsEnd
