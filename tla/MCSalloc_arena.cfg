\* Two regions of 7 and 8 words, requests of 1, 2 and 3 words.
CONSTANTS
  v1 = v1
  Zero = Zero
  Junk = Junk
  MemStart <- MCMemStart
  MemEnd <- MCMemEnd
  Sizes <- MCSizes
  Values = {v1}
SPECIFICATION Spec
INVARIANTS TypeOK Coalesced TakenAreLive
PROPERTY ImplementsHeap
