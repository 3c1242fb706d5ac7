\* Every part; three tracees, a program of the host and a 32-bit one of the guest's processor,
\* breaks below the heap, inside a page and over several; two pipes of one or two slots and
\* one shadow.
CONSTANTS
  Parts = {"execve", "pipes", "paths", "netlink", "talloc", "jit", "loader", "args", "kompat", "ports"}
  Tracees = {1, 2, 3}
  Programs = {"sh", "ls"}
  Foreign = {"ls"}
  Class32 = {"ls"}
  PageSize = 2
  Breaks = {0, 9, 13}
  MaxCalls = 4
  Pipes = {"p", "q"}
  Capacities = {1, 2}
  MAX_SHADOW_PIPES = 1
  MaxAge = 2
  TimerTicks = 2
  Late = FALSE
  Quirks = {}
SPECIFICATION AllSpec
INVARIANTS
  RecordIsTheProgram BrkLikeLinux
  ResolvesLikeKernel OwnershipIsSound HitIsCurrent LoadedLikeKernel ArgsLikeLinux
  LikeTheVirtualKernel PortsAreTheGuests
PROPERTIES
  Terminates NetlinkIsHonest AnswersArrive FreedIsUnkept BlockedWriterIsFreed FirstWriteIsKept
CHECK_DEADLOCK FALSE
