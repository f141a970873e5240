SPECIFICATION Spec
CONSTANTS
  l1 = l1  l2 = l2  p1 = p1  p2 = p2  t1 = t1  t2 = t2  t3 = t3
  NoCall = NoCall  NoThread = NoThread  NoLoop = NoLoop
  Loops = {l1, l2}
  Posters = {p1}
  Tasks = {t1, t2, t3, t4}
  Spawn <- CrossRelay
  QuitLoops = {}
  PageUnits = 2
  Pages = 1
PROPERTY RunInLoopReturns
CHECK_DEADLOCK FALSE
