SPECIFICATION CommandsSpec
CONSTANTS
  Paths <- PathsModel
  Atlas = "docs/ATLAS.md"
  Slug <- SlugModel
  Legacy <- LegacyModel
  Required <- RequiredModel
  Optional <- OptionalModel
  Include <- IncludeModel
  PackOptional <- PackOptionalModel
  Stripped <- StrippedModel
  Budgets <- BudgetsModel
  Corpora <- CorporaModel
  Worked <- WorkedModel
  Texts <- TextsModel
  Edits <- EditsModel
  None = None
  Broken = Broken
  Procs = {1, 2}
  Tasks = {"t1", "t2"}
  Costs = {1, 2}
  MaxCommands = 2
  MaxChanges = 1
INVARIANT SiteAlwaysWithin
CHECK_DEADLOCK FALSE
