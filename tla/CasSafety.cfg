SPECIFICATION Spec
CONSTANTS
  a = a
  b = b
  a1 = a1
  a2 = a2
  b1 = b1
  joining = joining
  None = None
  IDs = {a, b}
  Procs = {a1, a2, b1}
  IdOf <- TwoWearOneID
  Predecessor <- SecondReplacesFirst
  RoleBits = {joining}
  RoleJoining = joining
  InitialRoles = {{}}
  WantRoles = {{joining}}
  RoleThreads = {"role1"}
  Configs <- SafetyConfigs
INVARIANTS TypeOK SelfInView
PROPERTIES RowsSurviveOthers LeaseAdvances
CHECK_DEADLOCK FALSE
