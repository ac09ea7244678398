CONSTANTS
  c0 = c0  c1 = c1  e1 = e1  e2 = e2  bogus = bogus  r1 = r1  r2 = r2  r3 = r3
  NULL = NULL
  MaxHypotheses = 2
  MaxLinks = 2
  Corpus <- TheCorpus
  EvidenceOf <- Ids
  GapsOf <- GapsNamed
  Repeats = 2
  Replies <- AllReplies
  Reviewer = {r1, r2, r3}
  Label <- GivenLabels
  Ruling <- Rulings
  MaxItems = 2
SPECIFICATION Spec
SYMMETRY Interchangeable
INVARIANTS PublishedIsTrue FinishedIsEligible SummaryTrue ObedientUnlessText AcceptedIsStorable CountsBacked LateReviewHarmless
CHECK_DEADLOCK FALSE
