CONSTANT JsonSpeeds = {0}
SPECIFICATION Spec
INVARIANT WeaponsAgreeWithTable
