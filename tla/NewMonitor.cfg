SPECIFICATION FairSpec
CONSTANTS
  Options <- MCOptions
  MaxCount = 1
  Texts <- MCTexts
  Found <- MCFound
  Groups <- MCGroups
  Codes <- MCCodes
  GroupCodes <- MCGroupCodes
  DefaultCodes <- MCDefaultCodes
  Successes <- MCSuccesses
  Watched <- MCWatched
  Regions <- MCRegions
  MaxSubmissions = 2
INVARIANTS
  TypeOK
  AcceptsOnlyShown
  FieldErrorsAreCurrent
  ReportIsTrue
  ListShowsCreated
PROPERTIES
  DropsAreUnticked
  SpinnerEnds
CHECK_DEADLOCK FALSE
