\* One chain of two providers, two requests at a time.
SPECIFICATION FairSpec
CONSTANTS
  a = a
  b = b
  r1 = r1
  r2 = r2
  Requests = {r1, r2}
  Providers = {a, b}
  Chains <- Fallback
  NoProvider = NoProvider
  MinRequests = 2
  MaxRetries = 1
  MaxWindow = 2
  MaxCancels = 1
INVARIANTS TypeOK OneProbePerEpisode
PROPERTIES ClosesOnlyOnAnswer PrimarySettles
