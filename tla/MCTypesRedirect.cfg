SPECIFICATION DebugSpec
CONSTANT Frontend <- RedirectingFrontend
CHECK_DEADLOCK FALSE
INVARIANT
  RedirectsAgree
