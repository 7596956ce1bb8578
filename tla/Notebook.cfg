SPECIFICATION MCSpec
CONSTANTS
    Users = {1, 2}
    Folders = {1, 2, 3}
    Papers = {1, 2}
    FolderOwner <- FirstOwnsFolders
    NoteOwner <- EachOwnsOne
    Shares = {1}
    Handlers = {h1, h2}
    MaxDepth = 3
    MaxRequests = 5
    Pages = {1, 2, 3}
    Titles = {"a", "b"}
    TagIds = {1, 2}
    TagNames = {"x", "y"}
    Shelves = {1}
    MaxEdits = 3
    MaxFaults = 1
    MaxLimit = 2
    MaxTime = 2
    MaxTouches = 5
    Emails = {"ann", "bob"}
    Domain <- Workplace
    CalendarName <- Invitation
    Names = {"Ann", "Bob", "Robert"}
    Normal <- Nickname
    Labels = {l1, l2}
    NoteEvent = {"ann"}
    Tasks = {t1, t2}
    NoDomain = "none"
    MaxAsks = 3
    Notes = {1, 2}
    Conversations = {1, 2}
    Sends = {1, 2}
    Agents = {"local", "undeclared"}
    Admitting = {"local"}
    NoAgent = "none"
    NoNote = 0
    NoConversation = 0
    MaxSends = 2
    MaxChanges = 1
INVARIANTS Forest PagesCoverTheList AnsweredInContext AnalysedAsAdmitted
PROPERTIES TagsGoWithTheirLastNote MentionsAreLinked MergeKeepsSpeakers
SYMMETRY Alike
CHECK_DEADLOCK FALSE
