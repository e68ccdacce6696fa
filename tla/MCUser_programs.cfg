\* The user programs, each on its own.
CONSTANTS
    Units = 9
    CORE = 3
    Sizes = {2, 3}
    BUF = 6
    Patterns <- MCPatterns
    Inputs <- MCInputs
    Cells = 4
    Chars = {0, 1, 2}
    Uint = 32
    Numbers <- MCNumbers
    MAXARGS = 3
    Procs = {1, 2, 3, 4, 5, 6}
    Shell = 1
    Scripts <- MCScripts
    Faults = 1
    PIPESIZE = 1
    Writes = 2
SPECIFICATION FairSpec
INVARIANTS
    HeapExact
    GrepExact
    StringsExact
    ShellExact
PROPERTY ProgramsReturn
CHECK_DEADLOCK FALSE
