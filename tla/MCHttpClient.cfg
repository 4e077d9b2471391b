SPECIFICATION Spec
CONSTANTS
  Addresses = 2
  Sizes = {0, 2}
  Window = 2
  Replies <- HttpReplies
  NoAnswer = NoAnswer
INVARIANTS
  TypeOK
  SocketsAreClosed
PROPERTIES
  ImplementsExchange
  RequestEnds
