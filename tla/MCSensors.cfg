SPECIFICATION Spec
PROPERTIES OutputsRight AirReported TimesReal
CHECK_DEADLOCK FALSE
