CONSTANTS
  Images <- MCImages
  DataLengths = {1, 4, 7}
  FileAlignment = 4
  SectionAlignment = 8
  DirAlignment = 4
  DirSize = 3
  MaxConversions = 3
SPECIFICATION Spec
INVARIANTS
  TypeOK
  ImageWhole
  DirectoryResolves
\* the image is converted
CHECK_DEADLOCK FALSE
