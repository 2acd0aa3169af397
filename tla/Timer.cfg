SPECIFICATION FairTimerSpec
CONSTANTS
  Timers = {t1}
  Tickers = {k1, k2, k3}
PROPERTIES
  StopEndsTickers
  TicksForever
