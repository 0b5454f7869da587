SPECIFICATION Spec
CONSTANTS
    Processes = 3
    MaxWork = 5
    Names = {"login", "search", "showbuffer", "unknown"}
    MaxIndex = 3
CHECK_DEADLOCK FALSE
INVARIANTS HarkonenTypeOK LastRunsShown OneReader AimsAtFremen
PROPERTIES PromptReturns
