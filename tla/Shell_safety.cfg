SPECIFICATION FairSpec
CONSTANTS MaxDepth = 5
          MaxCommands = 2
          MaxItems = 2
          MaxOptions = 1
          Codes = {259}
INVARIANTS ShellTypeOK ExitCodeKept
PROPERTIES LandsAtHandler ShellEnds
