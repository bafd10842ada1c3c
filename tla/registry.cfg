SPECIFICATION FairSpec
CONSTANTS
  h1 = h1
  h2 = h2
  fan = fan
  FAN = FAN
  lamp = lamp
  spot = spot
  tv = tv
  None = None
  Handles = {h1, h2}
  First = h1
  Names <- MCNames
  Script <- MCScript
  Lower <- MCLower
  Uuid <- MCUuid
  Dimmable = {lamp, spot}
  StartPort = 1
  LastPort = 4
  OverflowChecks = TRUE
  Taken = {2}
  Bridge = TRUE
INVARIANTS TypeOK NamesAreUnique LocationsStayRight LightsKeepTheirIds OneRoutePerDevice
PROPERTY ListedIsServed
