SPECIFICATION Spec
CONSTANTS
  t1 = t1 t2 = t2 t3 = t3 t4 = t4 g1 = g1 gpt = gpt claude = claude
  Turns = {t1, t2, t3, t4}
  Groups = {g1}
  NoGroup = NoGroup
  GroupOf <- MCGroupOf
  Models = {gpt, claude}
  Route <- MCRoute
  PerGroup = 1
  MaxConcurrent = 2
  Trip = 2
  MaxEvents = 1
SYMMETRY Symmetry
INVARIANT LockConserved
INVARIANT PermitsConserved
INVARIANT OneProbe
PROPERTY ClosesByProbe
