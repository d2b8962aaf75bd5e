\* Two overlapping requests about a ticket with two agents, or about a question
\* with two students who vote and up to three answers.
SPECIFICATION Spec
CONSTANTS
  Requests = {r1, r2}
  Staff = {"agent", "colleague"}
  NoOne = "nobody"
  Students = {s1, s2}
  MaxVotes = 3
  Answers = {"a1", "a2", "a3"}
  NoAnswer = "none"
SYMMETRY HelpdeskSymmetry
INVARIANTS TicketIsTrue QuestionIsTrue
