SPECIFICATION Spec
CONSTANTS
  FileSystems = {f1, f2}
  Volumes = {v1, v2}
  MaxBackups = 4
  MaxStreams = 2
SYMMETRY Symmetry
 
INVARIANT ListUsable
INVARIANT RecordedFirst
INVARIANT CopiesOntoVolume
 
 
