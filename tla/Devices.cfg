SPECIFICATION Spec
CONSTANTS
  Head_ = Head_
  NULL = NULL
  Timers = {t1, t2, t3}
  Delays = {0, 12}
  One = 1
  MaxClock = 45
  Width = 3
  Cascade = 2
  CharBits = 2
  ShortBits = 3
  IntBits = 5
  LongBits = 7
  FRAME_WIDTH = 3
  FRAME_HEIGHT = 2
  TAB = 2
  Jobs = {"format", "lines", "timers", "print"}
  Formats <- MCFormats
  Writers = {w1, w2}
  Messages <- MCMessages
  Sleepers = {t1}
  Sleeps = {12}
  MaxMessages = 2
INVARIANTS KeepsPace WantedGetThrough ScreenShowsEnd PrintfExact
PROPERTY TimersKeepPromise
