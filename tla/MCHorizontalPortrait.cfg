CONSTANTS
  Nil = Nil
  CronJob = CronJob
  OtherJob = OtherJob
  JobTypes = {CronJob, OtherJob}
  PortraitTypes = {"Reactive"}
  Fields = {"schedule", "image"}
  Specs <- MCSpecs
  Datas = {d1, d2}
  Broken = Broken
  Troubles <- MCTroubles
SPECIFICATION Spec
INVARIANTS JobsAsSpecified
PROPERTIES JobsGoFirst EventuallyUpToDate DeletedPortraitsGo
CHECK_DEADLOCK FALSE
