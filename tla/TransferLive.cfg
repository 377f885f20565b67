SPECIFICATION FairTransferSpec
CONSTANTS
  r1 = r1  r2 = r2  k1 = k1  g1 = g1  g2 = g2  g3 = g3  m1 = m1  m2 = m2
  Blank = Blank
  Reqs = {r1, r2}
  Ranks = {k1}
  Pages = {g1}
  NumChunks <- MCOneChunk
  MetaSlots = {m1}
  PMetaSlots = 1
  MaxGen = 2
PROPERTIES EveryRequestConcludes CalmRequestsAreDelivered
