SPECIFICATION Spec
CONSTANTS
  c1 = c1  c2 = c2  e1 = e1  e2 = e2
  Client = {c1}
  Event = {e1, e2}
  Never = Never
  EventsInterval = 1
  NoEventsInterval = 2
  Ways = {"whole"}
  AppClears = FALSE
  Faults = {}
PROPERTIES EventlessPingWeekly
