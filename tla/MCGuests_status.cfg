SPECIFICATION Spec
CONSTANTS
  Guests = {app, vm}
  Apps = {app}
  Away = {vm}
  Acted = {app}
  Jobs = {1}
  Verbs = {"start", "stop", "uninstall"}
  MaxMishaps = 1
  BlindVanish = FALSE
PROPERTIES ShownSettles 
\* the jobs are all used up and the loop goes on for ever
CHECK_DEADLOCK FALSE
