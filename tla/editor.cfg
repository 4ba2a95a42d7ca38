\* One tab of the portal, colleagues and the department.
CONSTANTS
  Benefits = {free, discount}
  MaxVersion = 4
  MaxDrafts = 2
SPECIFICATION Spec
INVARIANTS
  TypeOK
PROPERTIES
  FirstSaveSeesAll
  SavesDoAsTold
