CONSTANTS
  t1 = t1
  t2 = t2
  db = db
  cb1 = cb1
  None = None
  Thread = {t1, t2}
  Area = {db}
  Offset = {0}
  Byte = {0, 1}
  Clock = {0}
  Callback = {cb1}
SPECIFICATION StoreSpec
INVARIANT CallbacksSurvive
