SPECIFICATION Spec
CONSTANTS
  Applications <- MCApplications
  Absent = Absent
INVARIANTS WrappedAsDeclared TransientsApart ResolvedAsWrapped StartJudged
CHECK_DEADLOCK FALSE
