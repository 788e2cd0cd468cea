SPECIFICATION Spec
CONSTANTS
  Users = {"u1", "u2"}
  Approved = {"u1"}
  Teachers = {"t1", "t2", "t3", "t4", "t5"}
  Questions = {"q1", "q2", "q3", "q4"}
  Handlers = {h1, h2}
  MaxRequests = 2
  MaxEdits = 1
  SemesterDates <- MCSemesterDates
  PollDates <- MCPollDates
  Times <- MCTimes
  DisciplineOf <- MCDisciplineOf
  QuestionForms <- MCQuestionForms
  RoleSets <- MCRoleSets
  FirstQuestions <- MCFirstQuestions
  FirstTeachers <- MCFirstTeachers
  Selections <- MCSelections
  Requests <- MCRequests
INVARIANTS
  NoHalfForms
  ListsAgree
PROPERTIES
  PromiseKept
SYMMETRY Symmetry
CHECK_DEADLOCK FALSE
