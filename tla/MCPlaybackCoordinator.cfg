CONSTANTS
  mpv = mpv
  web = web
  plat = plat
  mpris = mpris
  hook = hook
  browser = browser
  select = select
  Worker = worker
  Producers = {mpv, web, plat}
  Acting = {mpv}
  ExternalEvents = {mpris}
  ExternalActions = {hook}
  BuiltinEvents = {browser}
  BuiltinActions = {select}
  Posting = {mpris}
  MaxPosts = 1
SPECIFICATION Spec
INVARIANTS
  TypeOK
  SinksSeePublished
  BatchIsWhatWasQueued
  NothingAcceptedIsLost
PROPERTIES
  ImplementsDelivery
  ShutdownCompletes
  AcceptedIsDelivered
