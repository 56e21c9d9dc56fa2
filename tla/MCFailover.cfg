SPECIFICATION FairFailoverSpec
CONSTANTS
  gemini = gemini
  openai = openai
  claude = claude
  k1 = k1
  k2 = k2
  u1 = u1
  u2 = u2
  Unknown = unknown
  NoCustom = noCustom
  NotGiven = notGiven
  NoKey = noKey
  Gemini = gemini
  Others <- OthersTwo
  Order <- OrderThree
  Primaries <- AnyPrimary
  Pools <- SomePools
  Customs <- SomeCustoms
  CounterRange = 2
  MaxEdits = 1
INVARIANTS FailsLast CostBounded OwnKeysOwnRound
PROPERTIES RoundRobin CallEnds
