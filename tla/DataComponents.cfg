\* The memory cache as a bounded map; requests and what becomes of them; ladders;
\* pictures.
SPECIFICATION Spec
CONSTANTS
  CacheKeys = {k1, k2, k3}
  Data <- MCData
  MaxBytes = 3
  AudioPipelines <- MCAudioPipelines
  VideoPipelines <- MCVideoPipelines
  Sources <- MCSources
  Pictures <- MCPictures
  Wishes <- MCWishes
  MaxFrames = 2
INVARIANTS LRUTypeOK NewestOrRefused RetryIsSameJob PartIsDirectRequest WorkIsWhatWasAsked
INVARIANTS LadderIsPlayable LadderKeepsShape LadderDescends ProcessedAsAsked
PROPERTIES OldestGoFirst IsBoundedMap
CHECK_DEADLOCK FALSE
