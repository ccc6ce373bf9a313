SPECIFICATION Spec
INVARIANTS CodeInv CorrectedOrErased ErasedBytes NeverGivesUp DistanceIsMinimal
CHECK_DEADLOCK FALSE
