---- MODULE MCDispatch ----
EXTENDS Dispatch
IdListsModel == {<<"a", "b", "c">>, <<"a", "b", "a">>}
PathsModel == {<<"src">>,<<"src","api">>,<<"src","ui">>,<<"docs">>,<<"">>}
ScopesModel == {{}, {<<"">>}, {<<"src">>}, {<<"src","api">>}, {<<"src","ui">>}, {<<"src","api">>, <<"docs">>}}
RosterModel == <<"deepseek","mimo","luna">>
ProviderModel == [m \in Models |-> CASE m = "deepseek" -> "deepseek" [] m = "mimo" -> "xiaomi" [] OTHER -> "openai"]
PreferenceModel == [r \in {"core","tester"} |-> IF r = "core" THEN <<"mimo","deepseek">> ELSE <<"luna","mimo">>]
ListingsModel == {{"luna", "mimo-lite"}}
NamesModel == [m \in Models |-> IF m = "mimo" THEN {"mimo","mimo-lite"} ELSE {m}]
RoleModel == [t \in Ids |-> IF t = "b" THEN "tester" ELSE "core"]
====
