SPECIFICATION FairSpec
CONSTANTS
  Char = {a, b, NL, EOT}
  NL = NL
  CR = CR
  EOT = EOT
  INPUT_BUF = 3
  UintSize = 6
  MaxRead = 2
  Race = FALSE
INVARIANTS
  TypeOK
  IndexOrder
PROPERTIES
  Implements
 LineDelivered
