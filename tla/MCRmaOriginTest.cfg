SPECIFICATION Spec
CONSTANTS
  o1 = o1  o2 = o2  o3 = o3
  Id = {o1, o2}
  Entries = 2
  MaxBlock = 2
  MaxNbi = 2
  NoOp = NoOp
PROPERTY ReportedMeansDone
