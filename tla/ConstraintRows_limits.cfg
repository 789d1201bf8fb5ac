CONSTANTS
  anchor = anchor
  cable = cable
  stop = stop
  catch = catch
  block = block
  drop = drop
  cloth = cloth
  Constraints <- Constraints4
  KernelOf <- Kernels4
  Contacts <- Contacts3
  Flex = {cloth}
  RowsOf <- Rows7
  NnzOf <- Nnz7
  naconmax = 2
  Scenes <- Scenes6
  NjMaxes = {3, 6}
  NnzMaxes = {4, 8}
  FirstData <- FirstData2
  None = None
SPECIFICATION Spec
INVARIANTS
  IndInv
  RowsByCategory
  RowsExact
  EntriesExact
  LossesReported
