CONSTANTS
  Tab = {t1, t2}
  None = None
  MaxClicks = 3
  MaxEndpoints = 2
  MaxEvents = 3
SYMMETRY Alike
CONSTRAINT Few
SPECIFICATION Spec
CHECK_DEADLOCK FALSE
INVARIANTS SilentIsPushed NothingLeftBehind SettingsArePushed
PROPERTY OptOutStands
