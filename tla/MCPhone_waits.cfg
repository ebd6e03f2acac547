\* Two tablets scan two tokens at any time, two handlers open sessions again
\* after others closed them, and the phone polls over a lossy network; the MQTT
\* thread and an HTTP handler move a session in any order, and the phone may come
\* late, lose its socket and poll.
CONSTANTS
  Tokens = {t1, t2}
  NoToken = NoToken
  Ops = {o1, o2}
  NoOp = NoOp
  Tablets = {tab1, tab2}
  Handlers = {mq, web}
  LastPhase = 3
  Verdicts = {confirmed, rejected, cancelled}
  HttpVerdicts = {rejected, cancelled}
  NoFrame = NoFrame
SPECIFICATION MCSpec
INVARIANTS
  NoInventedVerdict
  OneSessionPerToken
  FollowsNewOrOpen
PROPERTIES
  
  SessionIsFollowed
