\* What is made with any cost that Argon2 takes.
SPECIFICATION Spec
CONSTANTS
  Characters <- CharactersMC
  Normal <- NormalMC
  MaxMemory = 16
  MaxParallelism = 1
  MaxIterations <- MaxIterationsMC
  LengthPrefix = 8
  LengthWrap = 4
  Stream <- StreamMC
  MaxTokens = 2
  MinSize = 22
  SaltLength = 2
  TagLength = 1
  Profiles <- ProfilesMC
  Documents <- DocumentsMC
  Peppers <- PeppersMC
  Costs <- CostsMC
  Dictionaries = {"ascii94", "flagship"}
  Recipients <- RecipientsMC
  Signers <- SignersMC
  Tokens <- TokensMC
  Secrets <- SecretsMC
  Sizes = {21, 22, 25}
  Order = 101
  Generator = 2
  HashToGroup <- HashToGroupMC
  HashToScalar <- HashToScalarMC
  MaxCounter = 3
  Seeds = {"own", "other"}
  Draws <- DrawsMC
  ApiKeys = {1, 2}
  MaxMade = 1
  MaxDamage = 0
INVARIANT
  WhatIsMadeOpens
