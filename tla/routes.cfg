\* Two installs that overlap, and installs that do not.
SPECIFICATION FairSpec
CONSTANTS
  Handlers = {h1, h2}
  Routes = {r1, r2, r3}
  NoRoute = NoRoute
  MaxQueue = 1
  MaxRoutes = 3
INVARIANT AsAtomic
PROPERTIES Answered RemoveFailsOverlapped
