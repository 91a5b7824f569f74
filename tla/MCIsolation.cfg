SPECIFICATION Spec
INVARIANTS StrictNamespaces MapsAllOrNone MembersAreLimited StrictGroups NeverBare
