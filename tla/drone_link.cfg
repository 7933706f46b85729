SPECIFICATION FairDroneSpec
CONSTANTS
  Tasks = {t1, t2}
  CommandRetries = 1
  MaxAcks = 1
PROPERTIES
  LinkHasReason
  PowerNoticed
  StatusResumes
