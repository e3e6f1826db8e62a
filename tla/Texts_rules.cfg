SPECIFICATION TextsSpec
CONSTANT MaxLength = 6
INVARIANTS TextsTypeOK SplitsByRules CompleteByRules PartsExpand CoercionStable
CHECK_DEADLOCK FALSE
