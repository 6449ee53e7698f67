SPECIFICATION Spec
CONSTANT Backlights = {90, 200}
INVARIANTS ScreenOwner WholePicture PanelOffAtReset
PROPERTIES ExitReturns RequestShown SettingsReachPanel FramesKeepComing
CHECK_DEADLOCK FALSE
