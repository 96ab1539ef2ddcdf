SPECIFICATION FairSpec
CONSTANT MaxFailovers = 1
INVARIANTS TypeOK SuccessIsConfirmed FewLatePongs FewSockets RepliesToldApart
PROPERTY DeadPathLeft
CHECK_DEADLOCK FALSE
