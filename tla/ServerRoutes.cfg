CONSTANTS
  Middlewares <- MCMiddlewares
  Controllers <- MCControllers
  Configs <- MCConfigs
  MaxListed = 2
  AbortIndex = 8
  Denying = {"m2"}
  Allowing = {"m2"}
  AfterFails = TRUE
  PanicValues = {"error", "string", "other"}
  Nil = Nil
SPECIFICATION FairServerSpec
INVARIANTS TypeOK RoutesGuarded NoForeignGuards EndpointsGuarded RequestGuarded HandledOnce ControllerGuarded AfterMirrorsBefore PanicContained AnsweredOnce
PROPERTIES ServesChains RunsDown RequestsEnd
