SPECIFICATION FairSpec
CONSTANTS
  Handlers = {h1, h2}
  Broadcasters = {w1, w2}
  Capacity = 1
  Ticking = TRUE
  MaxMessages = 2
INVARIANT NothingLostUnlessFull
INVARIANT NeverSendsOnClosed
PROPERTY IsLossyFeed
PROPERTY SubscriptionWithdrawn
