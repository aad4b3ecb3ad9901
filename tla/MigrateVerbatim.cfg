SPECIFICATION MigrationSpec
CONSTANTS
  version = version
  purpose = purpose
  Unmapped = Unmapped
  HeaderKeys = {version}
  BodySections = {purpose}
  MaxBlocks = 4
  Blocks <- SourceBlocks
  Replies <- ModelReplies
INVARIANT MappedIsRendered
CHECK_DEADLOCK FALSE
