SPECIFICATION Spec
CONSTANTS
  place = place
  alert = alert
  placed = placed
  shipped = shipped
  ship = ship
  pack = pack
  fulfilment = fulfilment
  billing = billing
  uuid = uuid
  bytes = bytes
  name = name
  Notification = Notification
  NoKey = NoKey
  Garbled = Garbled
  Absent = Absent
  NoCommand = NoCommand
  Type = {place, alert, placed, shipped, ship, pack, Notification}
  NotificationLike = {alert, Notification}
  Domain = {fulfilment, billing}
  Nil = Nil
  NoName = NoName
  UnknownDomain = UnknownDomain
  Bytes = {uuid, bytes, NoBytes}
  NoBytes = NoBytes
  UUIDs = {uuid}
  Name = {name}
  Request <- Requests1
  CommandType = {place, alert}
  EventType = {placed, shipped}
  Translated = {placed}
  Target <- Targets
  Compensated <- ShipOnly
  MaxEvents = 2
  MaxCommands = 1
  MaxBeforeFollowUp = 1
  MaxFailures = 1
INVARIANTS
  TypeOK
  TranslatedOnce
  CompensationFits
  AnsweredOnce
PROPERTIES
  RejectionsSettle
CHECK_DEADLOCK FALSE
