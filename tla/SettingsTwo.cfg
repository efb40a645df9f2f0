SPECIFICATION SettingsSpec
CONSTANTS
  Keys = {"autonomy_mode", "max_parallel_tasks", "mcp_enabled", "log_level"}
  Files = {"user", "policy", "settings", "mcp"}
  Scope <- ScopeModel
  FileOf <- FileModel
  RestartRequired = {"autonomy_mode", "mcp_enabled", "log_level"}
  EnvKeys = {"autonomy_mode", "max_parallel_tasks"}
  Unread = {"mcp_enabled"}
  Nullable = {"autonomy_mode"}
  Sectioned = {"policy"}
  Requests = {1, 2}
  MaxSaves = 2
  MaxEdits = 0
INVARIANTS
  ShownIsConfig
  RequestIsExact
PROPERTIES
  StaysLoadable
CHECK_DEADLOCK FALSE
