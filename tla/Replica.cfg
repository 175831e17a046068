SPECIFICATION FairSpec
CONSTANTS
  Conversation = {c1, c2}
  None = None
  Opening = {o1, o2}
  Paging = {g1, g2}
  Main = {m1, m2}
  Imported = 2
  Budgets <- MCBudgets
  MaxWrites = 1
  PageSize = 1
  PollPage = 2
CHECK_DEADLOCK FALSE
INVARIANTS
  ConversationsStayApart
PROPERTIES
  NewestMessageStays
