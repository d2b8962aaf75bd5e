\* Two overlapping requests: of the teacher, of admins, of students who rate the course.
SPECIFICATION Spec
CONSTANTS
  Requests = {r1, r2}
  MaxEdits = 2
SYMMETRY RequestSymmetry
INVARIANTS ChangesAreFlagged ToldOfChanges FeaturedIsOnSale StatsAreFresh
