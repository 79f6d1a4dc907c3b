SPECIFICATION TypeOrAskSpec
CONSTANTS
  Chars <- AllChars
  SegmentChars <- LegalChars
  Lower <- LowerCase
  ReservedRoot <- Local
  MaxLen = 5
  Users = {"u1", "u2"}
  Account <- Owned
  TypedLen = 6
  Typed <- Letters
  Unders <- ShortPaths
  Names <- Offered
  Asked <- Candidates
  Legacy <- Found
  MaxRows = 4
  DeclaredRows <- SentRows
  TeamIds = {"t1", "t2"}
  MaxEntries = 2
  Registrations <- Sent
  Flushed <- SentNames
  MaxTouch = 3
  SeenAts <- Seconds
  MaxSeen = 2
  Code <- Ascii
INVARIANTS WalksTheAncestors ListsTheSubtree ClassIsTheEngines OneWriterPerKey TypeOK NearestNameWins PrivatePathsStayPrivate SpellingsAgree NoticeIsNoDeadEnd AdmittedIsAdmissible FlushNamesAreCounted
CHECK_DEADLOCK FALSE
