\* Two installs of one queued deletion (c4bmv2-readme.md:22).
SPECIFICATION Spec
CONSTANTS
  Handlers = {h1, h2}
  Routes = {r1, r2}
  NoRoute = NoRoute
  MaxQueue = 1
  MaxRoutes = 2
PROPERTY OnlyQueuedLeave
