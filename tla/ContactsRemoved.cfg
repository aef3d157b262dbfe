\* One contact is enough: it is on the file again after it was removed.
CONSTANTS
  Name <- MCName
  Data = {d1}
SPECIFICATION Spec
PROPERTY RemovedStaysRemoved
