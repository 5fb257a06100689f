SPECIFICATION ReadingSpec
CONSTANTS
  Null = Null
  Sites <- SiteSet
  Override <- Overrides
  Slugs <- SlugSets
CHECK_DEADLOCK FALSE
INVARIANTS NoVerdictFromSilence SameProbesSameGaps UnattestedBuysNoVendor
