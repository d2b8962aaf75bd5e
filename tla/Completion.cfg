\* Two overlapping requests: of the student in two tabs, of the teacher, for a certificate.
SPECIFICATION Spec
CONSTANTS
  Lessons = {l1, l2}
  Previews = {l2}
  Requests = {r1, r2}
SYMMETRY RequestSymmetry
INVARIANTS TypeOK CompletionIsCurrent CertificateWasEarned
