CONSTANTS
  Holonet = Holonet
  Command = Command
  Process = {Holonet, Command}
  Last = 2
  Slot = {s1, s2}
  Key = {k1, k2}
  Name = {a1, a2}
  User = {u1}
  Community = {c1}
  strategy = strategy
  auth = auth
  on = on
  off = off
  FloodSetting = {strategy}
  AuthSetting = auth
  Value = {on, off}
  Off = off
  Default <- MCDefault
  None = None
  Saves <- MCSaves
  Form <- MCForm
  MaxRequests = 2
  ShutdownWait = 1
  SinkWait = 1
  StopWait = 3
  MaxStarts = 2
SPECIFICATION Spec
CHECK_DEADLOCK FALSE
INVARIANT OneAccount
