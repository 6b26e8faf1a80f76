SPECIFICATION FairSpec
CONSTANTS
  Tasks = {t1, t2}
  Bulk = {t1}
  Offers <- MCOffers
  Lists <- MCLists
  Reported = {"unreachable"}
  MaxContacts = 2
  RemoveUnavailable = TRUE
INVARIANT OneBindingPerDevice
PROPERTIES RefusalHarmless ExpiredLeaves EmptyEntryLeaves
