SPECIFICATION Spec
CONSTANTS
  MaxCostUsd = 2
  Unlimited = Unlimited
  NoBudget = Unlimited
  Requests <- MCRequests
  Charges <- MCCharges
INVARIANT OverrideMeansApproved
