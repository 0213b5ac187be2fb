\* One account is played, edited and deleted, another comes and goes; one
\* form that is saved and edited, one that is only fetched; two save slots.
SPECIFICATION Spec
CONSTANTS
  a = a
  b = b
  f1 = f1
  f2 = f2
  s = s
  t = t
  Names = {a, b}
  Watched = {a}
  Forms = {f1, f2}
  Kept = {f1}
  Slots = {s, t}
  Editors = {"panel", "dashboard"}
  DefaultForm = f1
  NoName = NoName
  NoForm = NoForm
  NoSlot = NoSlot
  MaxRow = 2
  MaxSlots = 1
  Hazards = {}
SYMMETRY Symmetric
INVARIANTS
  TypeOK
  OriginalUntouched
  NothingInherited
CHECK_DEADLOCK FALSE
