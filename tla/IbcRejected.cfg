SPECIFICATION Spec
CONSTANTS
  c1 = c1
  c2 = c2
  ch1 = ch1
  ch2 = ch2
  Contract = {c1, c2}
  WithPort = {c1}
  NoContract = NoContract
  Channel = {ch1}
  Response <- Responses
  MaxSeq = 2
INVARIANT
  RejectedStaysClosed
