SPECIFICATION FairSpec
PROPERTIES
    RoutesByKnowledge
    CatalogConverges

CONSTANTS
    Accounts = {a1, a2}
    Scheduler = scheduler
    Manual = {manual}
    Requests = {r1}
    StartTruths = {"serves", "omits"}
    MaxEvents = 2
