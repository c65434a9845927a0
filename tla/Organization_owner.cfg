SPECIFICATION Spec
CONSTANTS
  Users = {1, 2, 3}
  Requests = {1, 2}
INVARIANT AnOwnerRemains
