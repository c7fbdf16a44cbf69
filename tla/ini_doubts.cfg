CONSTANTS
  Procs = {p, q}
  Checkers = {q}
  Inodes = {1, 2, 3, 4, 5}
  Keys <- MCKeys
  Vals = {0, 1}
  Installed <- MCInstalled
  Absent = Absent
  None = None
  Requests <- MCRequests
  MaxKills = 1
  MaxFull = 0
SPECIFICATION IniSpec
INVARIANTS
  NeverVanishes
  SettingsSurvive
