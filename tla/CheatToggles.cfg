\* Two programs, one of them without cheats; attaching may fail.
SPECIFICATION Spec
CONSTANTS
    Programs = {"p", "q"}
    MaxCheatCount = 3
    MaxOpcodes = 2
PROPERTY SavesOnlyWhatWasRead
CHECK_DEADLOCK FALSE
