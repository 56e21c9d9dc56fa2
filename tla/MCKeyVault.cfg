SPECIFICATION VaultSpec
CONSTANTS
  gemini = gemini
  openai = openai
  k1 = k1
  k2 = k2
  k3 = k3
  p1 = p1
  Providers <- TwoProviders
  Pasted <- Single
  EnvSingles <- MaybeSingle
  EnvPools <- MaybePool
  NoKey <- Empty
  Panels <- OnePanel
  MaxPool = 2
  MaxLosses = 1
  EnvOnHost = FALSE
INVARIANTS PrimaryFirst NoKeyLost RestartReloads
