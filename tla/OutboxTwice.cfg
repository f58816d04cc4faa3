SPECIFICATION Spec
CONSTANTS
  Notices = {n1}
  Addresses = {chat, shut}
  Dead = {shut}
  Passes = {p1, p2}
  Batch = 2
  MaxAttempts = 3
  MaxSlips = 0
  NoReply = NoReply
INVARIANT NotSentTwice
