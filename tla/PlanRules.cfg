SPECIFICATION RulesSpec
CONSTANTS
  ann = ann
  ben = ben
  hall = hall
  staff = staff
  admin = admin
  b1 = b1
  b2 = b2
  Bookings = {b1, b2}
  Sessions = {staff, admin}
  Admins = {admin}
  People = {ann, ben}
  Machines = {hall}
  Days = {0, 1}
  Instants = {0, 1, 2, 3}
  InstantsPerDay = 2
  Null = null
  Unborn = unborn
  Gone = gone
  Nothing = nothing
  InitialRows <- Tables
  Proposals <- NewBookings
  Patches <- Changes
  MaxRequests = 3
  MINUTES_PER_DAY = 8
  NORMATIVE_DAY_MINUTES = 480
  NoProfile = none
  MAX_LOOKAHEAD_DAYS = 28
  NoDate = nodate
INVARIANTS UncrossedEditsMakeSense ConflictsAreFound DatesKeepTheirMeaning
PROPERTIES FrozenBookingsStand
CHECK_DEADLOCK FALSE
