SPECIFICATION Spec
CONSTANTS
  q1 = q1
  q2 = q2
  a = a
  b = b
  c = c
  None = None
  Deleted = Deleted
  Ids = {q1, q2}
  Uids = {a, b, c}
  Recipient <- SomeRecipients
  ContentsOf <- TwoQsos
  UpsertBatch = 1
  RecipientLimit = 1
  MaxOps = 3
  MaxFaults = 1
INVARIANTS UploadMarksAreTrue OneMailPerConfirmation
PROPERTIES QslStateSettles RecipientChecksEnd
CHECK_DEADLOCK FALSE
