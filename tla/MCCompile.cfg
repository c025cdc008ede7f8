CONSTANTS
  Names <- MCNames
  Families <- MCFamilies
SPECIFICATION CompileSpec
INVARIANTS AcceptsExactly ResolvesInnermost LinkageStaysInside ScopesNest
  FollowsSource OneTerminator ValuesStayHome
