SPECIFICATION CommandsSpec
CONSTANTS
  Paths <- PathsModel
  Atlas = "docs/ATLAS.md"
  Slug <- SlugModel
  Legacy <- LegacyModel
  Required <- RequiredModel
  Optional <- OptionalModel
  Include <- IncludeModel
  PackOptional <- PackOptionalModel
  Stripped <- StrippedModel
  Budgets <- BudgetsModel
  Corpora <- CorporaModel
  Worked <- WorkedModel
  Texts <- TextsModel
  Edits <- EditsModel
  None = None
  Broken = Broken
  Procs = {p1, p2}
  p1 = p1
  p2 = p2
  Tasks = {"t1", "t2"}
  Costs = {1, 2}
  MaxCommands = 3
  MaxChanges = 1
SYMMETRY ProcSymmetry
INVARIANTS
  SiteWithinVisibility
  SummaryCountsOnce
  AnswersAreExact
CHECK_DEADLOCK FALSE
