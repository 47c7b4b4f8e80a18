\* Every command, choice of sources, registry and reader.
SPECIFICATION Spec
CONSTANTS
    MaxTools = 1
    Registries <- MCRegistries
    Char = {":", "a"}
    SkillName <- MCSkillName
    ToolName <- MCToolName
\* The command ends.
CHECK_DEADLOCK FALSE
INVARIANTS NoFalseGreen NoFalseRed NamesRouteBack
