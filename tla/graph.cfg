CONSTANT Shapes <- MCShapes
SPECIFICATION Spec
CHECK_DEADLOCK FALSE
INVARIANTS DeliveryIsGranted AnswersAreBacked ExhaustionIsFinal
PROPERTY RunEnds
