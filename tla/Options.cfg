SPECIFICATION Spec
CONSTANTS
  Typed <- TypedValue
  Protocols <- ProtocolsValue
  MaxOptions <- MaxOptionsValue
INVARIANTS
  SavedIsRead
  InversionKept
  ListingComplete
  OrderFree
CHECK_DEADLOCK FALSE
