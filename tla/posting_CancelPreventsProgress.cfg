CONSTANTS
  v1=v1 v2=v2 k1=k1 k2=k2
  Viewers={v1} Keys={k1} ClientKeys={c1} Sessions={s1} Ops={o1}
  KeyViewer <- MCKeyViewer PostAs <- MCPostAs
  NoViewer=NoViewer NoSession=NoSession NoOp=NoOp NoKey=NoKey
  MaxAttempts <- MCAttemptsSentTwice
  MaxErased <- MCErasedOnce MaxCrashes=1
SPECIFICATION Spec
PROPERTY CancelPreventsProgress
CHECK_DEADLOCK FALSE
