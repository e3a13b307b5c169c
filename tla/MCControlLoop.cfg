CONSTANTS
  Nil = Nil
  PolicyTables <- MCPolicyTables
  Inventories <- MCInventories
  Contexts <- MCContexts
  ResourceStates <- MCResourceStates
SPECIFICATION Spec
INVARIANTS
  SelectsBestFeasible
  ComparisonsObeyTheirLaws
  OrderIsNoTieBreak
PROPERTIES
  OnlyHigherPriorityDisplaces
  NamespacesStayApart
