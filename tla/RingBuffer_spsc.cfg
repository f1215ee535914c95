SPECIFICATION Spec
CONSTANTS
  p1 = p1
  c1 = c1
  v1 = v1
  v2 = v2
  v3 = v3
  Uninit = Uninit
  Producers <- OneProducer
  Consumers <- OneConsumer
  Values <- ThreeValues
  Cap = 2
  USIZE = 16
INVARIANT NoUninitRead
