\* A row that is chosen while the poller has the table drawn once a second.
SPECIFICATION BrowserSpec
CONSTANTS
  s1 = s1
  s2 = s2
  s3 = s3
  all = all
  some = some
  xx = xx
  id3 = id3
  Server = {s1, s2, s3}
  NoServer = NoServer
  Peer = {s3}
  Country <- MCCountry
  City <- MCCity
  Name <- MCName
  Needle = {all, some}
  NoNeedle = all
  Found <- MCFound
  Text = {xx, id3}
  InCountry <- MCInCountry
  Named <- MCNamed
  Identified <- MCIdentified
  Listing <- MCListing
  NoList = NoList
  DISPLAY_LIMIT = 2
PROPERTY EnterTakesTheRow
CHECK_DEADLOCK FALSE
