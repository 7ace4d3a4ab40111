CONSTANTS
  i1 = i1
  i2 = i2
  Ids = {i1, i2}
  Messages <- TwoDeliveries
  Relays = {"off", "http", "grpc"}
  OTelSettings = {TRUE, FALSE}
  MaxWire = 2
SPECIFICATION FairSpec
INVARIANTS TypeOK RelayedAsReceived
PROPERTIES ImplementsRelayQueue NoCallAfterSignal EventuallyTried SignalEnds
