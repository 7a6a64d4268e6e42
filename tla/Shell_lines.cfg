\* Command lines, pipelines and detached programs.
CONSTANTS
    MaxLines = 1
    MaxCmds = 3
    Signals = {"kill", "kill -9"}
SPECIFICATION Spec
CHECK_DEADLOCK FALSE
INVARIANTS
    ShellInv
    NoDoubleFree
    PromptClean
    Joined
    HandlerLoaded
PROPERTIES
    PromptReturns
