---------------------------- MODULE MCSettings ----------------------------
EXTENDS Settings

ScopeModel == [k \in Keys |-> IF k = "log_level" THEN "user" ELSE "project"]
FileModel == [k \in Keys |-> CASE k = "log_level" -> "user"
                               [] k = "autonomy_mode" -> "policy"
                               [] k = "mcp_enabled" -> "mcp"
                               [] OTHER -> "settings"]
============================================================================
