SPECIFICATION Spec
CONSTANTS
  NoConn = NoConn
  spare = c3
  Conn = {c1, c2, c3}
  Thread = {t1, t2}
  MaxClients = 2
  MaxFail = 1
CONSTRAINT Focus
INVARIANTS OwnConn OwnCommand Tidy ChannelsOnline
PROPERTIES Answered Freed
\* Once netconns have leaked (README, other disagreements) there may be none
\* left.
CHECK_DEADLOCK FALSE
