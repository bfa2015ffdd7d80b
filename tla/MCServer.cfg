CONSTANTS
  Clients = {c1, c2, c3}
  Backlog = 1
  Foreign = {"bpf_vegas"}
  Options = {"none", "cubic", "bpf_vegas"}
  Rates = {1, 2}
  MaxRecv = 4
  MaxSend = 2
SPECIFICATION MCSpec
INVARIANTS
  TypeOK PairedInTurn InstalledOnce DataNotBehind 
   NobodyStranded
PROPERTIES
  EventuallyServed
CHECK_DEADLOCK FALSE
