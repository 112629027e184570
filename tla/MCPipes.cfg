\* Three requests, pipes of one message; one session with two commands, next
\* to the shutdown of the application.
SPECIFICATION PipesSpec
CONSTANTS
  r1 = r1
  r2 = r2
  r3 = r3
  NoRequest = NoRequest
  Requests = {r1, r2, r3}
  MaxPipe = 1
  Sessions = {1}
  MaxCommands = 2
INVARIANTS
  ForgottenIsWoken
  RunningIsOpen
  CodeIsOwn
PROPERTIES
  Exchanged
  DeathWakesAll
  AnswerArrives
  ShutdownEnds
  DeathEndsCommand
\* The system may stop once the requests of the bound have returned, and after
\* the shutdown.
CHECK_DEADLOCK FALSE
