SPECIFICATION Spec
CONSTANTS
    Users = {1, 2}
    Folders = {1, 2, 3}
    Notes = {1, 2}
    FolderOwner <- FirstOwnsFolders
    NoteOwner <- EachOwnsOne
    Shares = {1}
    Handlers = {1, 2}
    MaxDepth = 3
    MaxRequests = 5
INVARIANT PrivateFoldersHoldOwnNotes
CHECK_DEADLOCK FALSE
