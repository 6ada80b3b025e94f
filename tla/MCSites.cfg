\* One page of either provider, with any two faults and one settings request.
CONSTANTS
  Providers = {"aws_cloudfront", "cloudflare_pages"}
  Accounts = {a1, a2}
  Domains = {w1}
  Commits = {c1, c2}
  None = None
  MaxFaults = 2
  MaxEdits = 1
  MaxMade = 5
SPECIFICATION Spec
CHECK_DEADLOCK FALSE
INVARIANTS
  
  LiveDomainWorks
  NothingForgotten
PROPERTIES
  Recovers
