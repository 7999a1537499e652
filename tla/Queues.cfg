SPECIFICATION QueueSpec
CONSTANTS
  Sender = {s1, s2, s3}
  Value = {s1, s2, s3}
  NoOne = NoOne
  MaxItems = 4
INVARIANTS
  QueueSafe
  MailboxSafe
PROPERTIES
  PublishedIsRead
  ImplementsFifo
  UsesYpipe
CHECK_DEADLOCK FALSE
