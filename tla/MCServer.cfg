SPECIFICATION MCSpec
CONSTANTS
  MaxBody = 2
  Sizes <- MCSizes
  MaxAsk = 3
  BufCount = 2
  Expects = {FALSE}
  Kinds = {"str"}
  Faults = {"close", "error", "refuse"}
  MaxCalls = 4
  Modulus = 64
  MaxChunkSize = 7
  e1 = e1
  e2 = e2
  c1 = c1
  c2 = c2
INVARIANTS InStep ClientFollows DecodesMessage CutIndependent SentInOrder EnginesCounted SinkAndStream
