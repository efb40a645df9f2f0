SPECIFICATION Spec
CONSTANTS
  Ids = {"a", "b", "c"}
  Unknown = "x"
  IdLists <- IdListsModel
  Paths <- PathsModel
  Scopes <- ScopesModel
  Ops = {"validate", "order", "scopes"}
  Roster <- RosterModel
  Provider <- ProviderModel
  Primary = {"deepseek", "mimo"}
  Expected = {"deepseek", "mimo"}
  Preference <- PreferenceModel
  Listings <- ListingsModel
  Names <- NamesModel
  MaxFallback = 1
  MaxBoots = 2
  RoleOf <- RoleModel
  Risky = {"a"}
  MaxBegun = 3
INVARIANTS
  PlanIsSound
  RoutingIsSound
PROPERTIES
  TaskSettles
CHECK_DEADLOCK FALSE
