SPECIFICATION Spec
CONSTANTS
  Field <- MCFields
  TypeOf <- MCTypes
  Small <- MCSmalls
  Text <- MCTexts
  BodySize = 8
PROPERTY FchgAsCommented
CHECK_DEADLOCK FALSE
