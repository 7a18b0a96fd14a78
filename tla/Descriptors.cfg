SPECIFICATION Spec
CONSTANTS
  j1 = j1
  j2 = j2
  Jails <- MCJails
  Streams <- MCStreams
  MaxFd = 16
  Files <- MCFiles
  Inheritable <- MCInheritable
SYMMETRY JailSymmetry
\* spawn never returns if the child fails before child_ready_barrier.
CHECK_DEADLOCK FALSE
INVARIANTS
  TypeOK
  PeakIsProgram
  BlindOnlyByOthers
  DescriptorsAccounted
  StreamsAsGiven
