CONSTANTS
  d1 = d1
  d2 = d2
  Deliveries = {d1, d2}
  Headers <- Posted
  Pushed = {d2}
  DeliveryIdHeader = "X-Github-Delivery"
  Empty = ""
  Streams = {s1, s2}
  NoStream = NoStream
  Stores = {"memory", "redis"}
  MaxPosts = 2
SPECIFICATION FairSpec
INVARIANTS TypeOK NothingVanishes ArrivesWhole
PROPERTIES ImplementsDelivery EventuallyReceived
