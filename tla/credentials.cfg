SPECIFICATION Spec
CONSTANTS
  m1 = m1
  m2 = m2
  h1 = h1
  h2 = h2
  l1 = l1
  pw1 = pw1
  pw2 = pw2
  None = None
  NoVPN = NoVPN
  Machine = {m1, m2}
  Host = {h1, h2}
  Login = {l1}
  Password = {pw1, pw2}
  Installers = {m1}
  Removers = {m2}
  Commands <- KeepCommands
SYMMETRY Alike
INVARIANTS TypeOK CleanCommandsAgree KnownPasswordsWork
PROPERTIES LoginsChange
