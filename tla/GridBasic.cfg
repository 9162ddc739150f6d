SPECIFICATION Spec
CONSTANTS
    Programs <- AllPrograms
    Inputs = {0, 1}
    MaxFrames = 4
    MaxVars = 6
    Commands = {"run", "compile", "run_code"}
    MaxCommands = 1
INVARIANTS  LoopsMatchText EndsWithResult
 
