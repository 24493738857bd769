SPECIFICATION MCSpec
CONSTANTS
  Instances = {0, 1, 2}
  Components = {object_a, component_a}
  Main = object_a
  Tags = {t}
  MaxComponents = 3
  ObjectPlaces = 2
  Storages = {"cs", "ocs"}
INVARIANTS
  DataKept
  
PROPERTIES
  ImplementsRelation
  
