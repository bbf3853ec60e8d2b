SPECIFICATION Spec
CONSTANTS
    Messages <- SomeMessages
    Commands <- AllCommands
    Started <- Pipeline
    MaxIds <- FewIds
INVARIANTS UniqueIds FiltersAccumulate AutocmdsRun
PROPERTIES BreakpointStops StopsWhenAsked
CHECK_DEADLOCK FALSE
