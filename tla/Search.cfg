SPECIFICATION SearchSpec
CONSTANTS
  Texts = 3
  Fraction = 2
  MaxUsize = 7
  Requests <- HitRequests
  Indexes <- Segmentations
  Names = {"a", "b"}
  Terms = {0, 1, 2, 3, 4}
  PrefixSets <- ReaderPrefixes
  MaxLimit = 2
INVARIANTS
  PushdownExact
  RequestsAnswered
  FeedbackIsSound
  SimilarityIsSound
  CallsAreHonest
  AnswersAsOneIndex
  PagesAreTheRanking
  ExpansionIsExact
CHECK_DEADLOCK FALSE
