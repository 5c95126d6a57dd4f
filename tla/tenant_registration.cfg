SPECIFICATION FairSpec
CONSTANTS
  q1 = q1
  q2 = q2
  e1 = e1
  s1 = s1
  s2 = s2
  c1 = c1
  c2 = c2
  c3 = c3
  c4 = c4
  c5 = c5
  Req = {q1, q2}
  Email = {e1}
  EmailOf <- SameEmail
  Slug = {s1, s2}
  SlugOf <- SameSlug
  Call = {c1, c2, c3, c4, c5}
  Kinds <- CallKinds
  MaxFaults = 1
CHECK_DEADLOCK FALSE
INVARIANTS SlugGivenOnce TenantIsVerified
PROPERTY OnboardingEnds
