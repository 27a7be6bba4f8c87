\* The limits of the code, scaled down so that a handful of lines reaches each.
CONSTANTS
  LogBytes <- MCLogBytes
  MAX_ERRORS = 2
  MAX_WARNINGS = 1
  MAX_STACK_TRACES = 1
  STACK_TRACE_MAX_LINES = 2
  MAX_TOTAL_LINES = 3
  TemplateBytes <- MCTemplateBytes
  TEMPLATE_MIN_RUN = 2
  TEMPLATE_MIN_CONSTANT_TOKENS = 1
  DiffBytes <- MCDiffBytes
  CONTEXT_ANCHOR = 1
  CONTEXT_COLLAPSE_THRESHOLD = 2
  noisy_paths = {"diff --git lock"}
  MIN_MATCHES = 3
  TOP_K_PER_FILE = 1
  Relevance <- MCRelevance
  MatchBytes = 8
  MarkerBytes = 2
  Segment <- MCSegment
  MIN_SEGMENTS = 4
  MIN_TARGET_CHARS = 8
  TARGET_PERCENT = 40
  SIMILAR_PERCENT = 82
  DUPLICATE_PRESSURE = 2
  Cell <- MCCell
  MIN_ROWS = 3
  ROW_DROP_THRESHOLD = 4
  HEAD_ROWS = 3
  TAIL_ROWS = 2
  LEAST_HEAD = 2
  LEAST_TAIL = 1
  MAX_CHANGE_POINT_ANCHORS = 2
  MAX_DISCRIMINATOR_BUCKETS = 2
  MAX_DUPLICATE_CLUSTER_ANCHORS = 2
  MAX_SPREAD_ANCHORS = 2
  MAX_ADAPTIVE_SPREAD_ANCHOR_BOOST = 1
  MIN_SATURATION_BIGRAMS = 2
  MAX_INFORMATION_DENSE_ANCHORS = 1
  QUERY_DIRECTION_EXTRA_ROWS = 1
  QUERY_ROWS = 2
  SPARSE_ROWS = 1
  Bm25 <- MCBm25
  KeyBytes = 2
  Code <- MCCode
  MIN_BODY_LINES_TO_COLLAPSE = 2
  LEAST_CODE_LINES = 4
  CodeBytes = 3
  PlaceholderBytes = 4
  Logs <- MCLogs
  TemplateLogs <- MCTemplateLogs
  Diffs <- MCDiffs
  Searches <- MCSearches
  Snippets <- MCSnippets
  Texts <- MCTexts
  Arrays <- MCArrays
  Sources <- MCSources
  Pages <- MCPages
  StubModes <- MCStubModes
  StubBudgets = {0, 3}
  Queries = {"none", "first", "latest", "other"}
  Scripts <- MCScripts
  Pattern <- MCPattern
  WordChars = 2
  MarkerChars = 3
  TINY_OUTPUT_MAX_CHARS = 8
  HEAD = 2
  TAIL = 1
  FAILURE_TAIL = 2
  Runs <- MCRuns
  Rules <- MCRules
  Order <- MCOrder
  Row <- MCRow
  max_hits = 4
  max_lines = 2
  max_output_hits = 3
  SEARCH_WINDOW_LINES = 2
  Looks <- MCLooks
  HashKinds <- MCHashKinds
  Splices <- MCSplices
  FrozenPrefixes <- MCFrozenPrefixes
  Said <- MCSaid
  HeadingBytes = 3
  ItemBytes = 2
  RefBytes = 1
  BUDGET_OVERHEAD = 8
  LEAST_CONCLUSION = 3
  Transcripts <- MCTranscripts
  Layers <- MCLayers
SPECIFICATION CallSpec
INVARIANTS LinesAreAccounted SignalSurvives NothingBetterIsLeftOut ReformatIsFaithful HitsAreInPlace
  PolicyReadsTheCommand
CHECK_DEADLOCK FALSE
