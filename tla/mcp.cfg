SPECIFICATION McpSpec
CONSTANTS
  Servers = {"files", "web"}
  Offers <- MCOffers
  Clients = {"r1", "r2"}
  Uses <- MCUses
  Main = "main"
  NoServer = "none"
  MaxLines = 1
  MaxSent = 4
INVARIANTS OwnAnswer SchemaOfOwner
PROPERTIES CallReturns
CHECK_DEADLOCK FALSE
