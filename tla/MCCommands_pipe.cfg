\* The reader of the report goes away.
SPECIFICATION Spec
CONSTANTS
    MaxTools = 1
    Registries <- MCRegistries
    Char = {":", "a"}
    SkillName <- MCSkillName
    ToolName <- MCToolName
\* The command ends.
CHECK_DEADLOCK FALSE
INVARIANTS PipeKeepsExitCode
