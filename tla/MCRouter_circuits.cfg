\* Two channels, three adapters, two workers.
SPECIFICATION FairSpec
CONSTANTS
  email = email
  sms = sms
  a = a
  b = b
  c = c
  Workers = {w1, w2}
  Names = {a, b, c}
  Channels = {email, sms}
  providers <- TwoChannels
  Prober = {a}
  Nil = Nil
  Threshold = 2
  Cooldown = 2
INVARIANTS
  TypeOK
  OpensAtThreshold
  OutageIsContained
PROPERTY ComesBack
