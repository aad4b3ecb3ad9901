SPECIFICATION WorkspaceSpec
CONSTANTS
  hipaaD = hipaaD
  isoA517 = isoA517
  isoRest = isoRest
  pci82 = pci82
  hipaa = hipaa
  iso = iso
  pci = pci
  policy = policy
  sop = sop
  Controls = {hipaaD, isoA517, isoRest, pci82}
  Frameworks = {hipaa, iso, pci}
  DocTypes = {policy, sop}
  FrameworkOf <- Standards
  DocTypesOf <- Expected
  Mapped <- Authentication
  Names = {d1, d2}
  aup = aup
  notes = notes
  pol001 = pol001
  twelve = twelve
  fourteen = fourteen
  nist = nist
  runbook = runbook
  Texts = {aup, notes}
  Sections = {twelve, fourteen}
  Processes = {p1, p2}
  Ids = {i1, i2, i3}
  RunIds = {run1}
  Numbers = {pol001}
  Content <- Files
  Passage <- Wording
  Likeness <- Cosine
  LockoutKeys <- TheLockout
  NistCsf = nist
  Nothing = Nothing
  Deleted = Deleted
  EyeFaults = {"database", "timeout", "leap day", "stop"}
  Paragraphs <- FileParagraphs
  MaxParagraphs = 4
  LengthOf <- ParagraphLength
  TargetLength = 3
  section1 = section1
  section2 = section2
  doc1 = doc1
  doc2 = doc2
  ctl = ctl
  quote1 = quote1
  quote2 = quote2
  MaxLines = 3
  MaxQuestions = 2
  TopK = 1
  MaxCitations = 1
  Evidence = {section1, section2}
  DocumentOf <- SectionDocument
  ControlsOf <- DocumentControls
  QuotesOf <- SectionQuotes
  Verdicts <- ModelVerdicts
  AnswerFaults = {"vectors", "model", "run", "answers"}
  version = version
  purpose = purpose
  Unmapped = Unmapped
  HeaderKeys = {version}
  BodySections = {purpose}
  MaxBlocks = 4
  Blocks <- SourceBlocks
  Replies <- ModelReplies
  Slots <- DraftSlots
  Registered = {ctl1, ctl2}
  CandidateIds = {ctl1}
  Cited = {ctl1, ctl2, ctl3}
  DraftFaults = {"model", "store"}
  ScanBlocks <- DocumentBlocks
  MaxScanBlocks = 5
  Treatments <- ModelTreatments
  m1 = m1
  m2 = m2
  Newcomers = {u1}
  Hosts = {h1, h2}
  Answers = {answer}
  ModuleLists <- EnabledModules
  Keep = Keep
  MaxFailures = 1
SYMMETRY EyeSymmetry
INVARIANTS
  NoMissedGap
  OnlyMembersAreSpurious
  CoverageGoesByGroup
  ReportsAgree
  ReingestKeepsDocument
  RunRowsAreTrue
  CompleteRunMissesNothing
  TextIsKept
  QuestionnaireIsAnswered
  CoverageIsCited
  MigrationIsMapped
  DraftKeepsUp
  DocumentIsComplete
  ScanIsSound
  OnboardingIsKept
CHECK_DEADLOCK FALSE
