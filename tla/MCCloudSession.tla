--------------------------- MODULE MCCloudSession ---------------------------
EXTENDS CloudSession

CONSTANTS v1, v2

TwoVisits == {v1, v2}

Report(kind, visit, at, status) ==
  [kind |-> kind, visit |-> visit, at |-> at, status |-> status]

\* One visit that ends unpaid, then one that ends paid, its space reported before it.
UnpaidThenPaid ==
  << Report("ENTERED", v1, 1, "ACTIVE"),
     Report("EXITED", v1, 2, "CLOSED"),
     Report("UNPAID", v1, 2, "CLOSED"),
     Report("SPACE", v2, 3, "OCCUPIED"),
     Report("ENTERED", v2, 3, "ACTIVE"),
     Report("EXITED", v2, 4, "PAID") >>
=============================================================================
