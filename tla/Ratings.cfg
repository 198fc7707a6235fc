SPECIFICATION FairSpec
CONSTANTS
  v1 = v1
  v2 = v2
  v3 = v3
  p1 = p1
  p2 = p2
  r1 = r1
  Review = {v1, v2, v3}
  Provider = {p1, p2}
  ProviderOf <- MCProviderOf
  RatingOf <- MCRatingOf
  Announced = {v1}
  Run = {r1}
  BatchSize = 2
  MaxFailures = 1
PROPERTIES FinishedRunIsExact WrongOnlyIfOvertaken RatingsConverge
