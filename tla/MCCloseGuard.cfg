SPECIFICATION Spec
CONSTANT Budgets <- MCBudgets
INVARIANTS TypeOK AnswerComes
PROPERTY NeverClosesSilently
CHECK_DEADLOCK FALSE
