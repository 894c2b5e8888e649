CONSTANTS
  stockholm = stockholm
  Geo = {}
  Weather <- OnePlace
  TTL = 2
  ClientTTL = 1
  Answers = {"data", "error", "none", "junk"}
  MaxKills = 1
  MaxFaults = 0
  MaxClientFaults = 1
SPECIFICATION ClientSpec
PROPERTIES
  WeatherComesBack
INVARIANTS
  ClientTypeOK
  ShownWeatherIsRecent
