SPECIFICATION EnvSpec
CONSTANTS
  Envs = {dflt, e1, e2}
  Default = dflt
  HasTail = TRUE
PROPERTY StoresAtomically
