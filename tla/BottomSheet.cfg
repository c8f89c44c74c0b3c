CONSTANT Top = 11
SPECIFICATION Spec
INVARIANTS TypeOK AtRestAtAnEdge
PROPERTIES ReachesItsEdge
