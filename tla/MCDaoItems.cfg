SPECIFICATION Spec
CONSTANTS
  c1 = c1
  a1 = a1
  a2 = a2
  Proposal = {p1}
  PaymentRequest = {r1}
  Consultation = {c1}
  ConsultationAnswer = {a1, a2}
  Register = {v1}
  Parent <- ParentOf
  Focus <- Groups
  Data = {x, y}
  NoData = noData
  NoEntry = noEntry
INVARIANTS AnswersListed
PROPERTY StoreSpec
