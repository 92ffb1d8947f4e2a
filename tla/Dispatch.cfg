\* Two descriptors used again, one bench session at a time, one mark.
CONSTANTS Fd = {f1, f2} MaxSessions = 1 MaxGen = 3 InitWords = 2 MaxRead = 2 Half = 128 Empty = empty
SPECIFICATION FairSpec
INVARIANTS BenchGuarded NoInheritance
PROPERTIES KillSwitchWorks
CHECK_DEADLOCK FALSE
