SPECIFICATION Spec
CONSTANTS
  Tasks = {t1, t2}
  Bulk = {t1}
  Offers <- MCOffers
  Lists <- MCLists
  Reported = {"unreachable"}
  MaxContacts = 3
  RemoveUnavailable = TRUE
PROPERTY NoBindingLost
