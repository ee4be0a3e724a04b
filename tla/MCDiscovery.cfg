SPECIFICATION FairSpec
CONSTANTS
  Services = {orders, users}
  Reflection = reflection
  Uploads = {{}, {orders}, {orders, users}}
  Schemas <- MCSchemas
  Root = "Root"
  WellKnown = {"Timestamp"}
  MaxDepths = {0, 1}
  MaxNodes = 4
INVARIANT TypeOK
INVARIANT ConnectionReturned
INVARIANT ListingCallable
INVARIANT WithinLimits
INVARIANT PrunedIdeal
INVARIANT CompleteWithinLimits
PROPERTY EveryRequestAnswered
