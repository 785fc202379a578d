\* One state per input (see MCRules), and the editors of a template.
CONSTANTS
  Editors = {e1, e2}
  Contents = {c1, c2, c3}
  MaxVersions = 5
  NoEditor = NoEditor
  Ticks = 6
  Interval = 2
  SearchDays = 3
  Now = 10
  Words <- NoWords
  ScanLines = 2
  Listed = {"pl", "en"}
  MultiPartSuffixes <- PublicSuffixes
  IpAddresses <- DottedAddresses
  AnonymisedDomain <- ErasedDomain
  Channels = {1, 2}
SPECIFICATION MCSpec
\* Inputs have no steps, and the versions run out.
CHECK_DEADLOCK FALSE

INVARIANT ViewsAgree
INVARIANT RowsFromTimelines
INVARIANT ActivityCovers
INVARIANT NextSlotIsFirst
INVARIANT SpreadIsFair
INVARIANT AnswersFindTheirThread
INVARIANT ReportsFindTheirMail
INVARIANT OwnWordsDecide
INVARIANT TemplateMostSpecific
INVARIANT FooterFollowsBody
INVARIANT LegalTextOnce
INVARIANT PreviewIsSafe
INVARIANT CurrentVersionMatches
INVARIANT ListedExactly
INVARIANT ErasedEverywhere
