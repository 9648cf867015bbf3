\* The log of a run that is cancelled while it emits, read page by page.
SPECIFICATION Spec
CONSTANTS
    MaxEvents = 5
    Limit = 2
INVARIANT PagesMissNothing
