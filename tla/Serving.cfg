SPECIFICATION FairSpec
CONSTANTS
  talker = talker  first = first  second = second
  x = x  y = y
  p = p  q = q  pq = pq
  Bad = Bad
  Nobody = Nobody
  Jobs = {talker, first, second}
  Arrivals <- AloneOrInTurn
  Plain = {x, y}
  First = p
  Second = q
  Joined = pq
  Stops <- TwoStops
  Budget <- Longest
  Yields <- AnyText
  Bursts = {1, 2}
INVARIANTS NothingTakenBack StreamIsAnswer ClosedIsCancelled
PROPERTIES EverythingEnds
CHECK_DEADLOCK FALSE
