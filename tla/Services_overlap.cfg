\* Two requests that overlap in each service.
CONSTANTS
  Versions = {v1}
  Tasks = {k1, k2}
  MaxCuts = 2
  CutSize = 2
  TopK = 2
  MaxLosses = 1
  Chats = {c1, c2}
  Editors = {e1, e2}
  MaxMinor = 2
  MaxChatLosses = 1
  WorkflowVersions = {1, 2, 3}
  RunnableVersions = {1, 2}
  Requests = {r1, r2}
SPECIFICATION MCSpec
INVARIANTS
  QuietIndexIsWhole
  ConversationIsAccounted
PROPERTIES
  IndexingSettles
  ChatsEnd
  OnlyDraftsComeBack
  OnlyStaleCopiesBreakPublishing
  SchedulesDriftOnlyByStaleCopies
CHECK_DEADLOCK FALSE
