\* A reader of lists or of reports while rows come, change and go.
CONSTANTS
  v1 = v1
  v2 = v2
  None = None
  Unread = Unread
  Gone = Gone
  Ids = {1, 2, 3, 4}
  Vehicles = {v1, v2}
  Dates <- MCDates
  Readings <- MCReadings
  Texts <- MCTexts
  FirstDay <- MCFirstDay
  LastDay <- MCLastDay
  MaxPage = 3
  PageSize = 2
SPECIFICATION MCSpec
ACTION_CONSTRAINT InMix
CONSTRAINT Undisturbed
INVARIANTS NothingSkipped PageFilled PeriodShown FiguresAgree BalanceCarriesOver
