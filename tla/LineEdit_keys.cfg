SPECIFICATION FairSpec
CONSTANTS Size = 4
          MaxHistory = 2
          MaxSkew = 2
          Typed = {"w", "{"}
          Names <- MCNames
          MaxWord = 2
INVARIANTS TypeOK CursorAtEnd 
PROPERTIES IsLine EofAnswers
CHECK_DEADLOCK FALSE
