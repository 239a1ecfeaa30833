SPECIFICATION FairSpec
INVARIANTS
  TypeOK
  LinkFlagTrue
  DuplexMatches
PROPERTIES
  LinkSettles
  DiscoverFollowsLink
