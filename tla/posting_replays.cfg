CONSTANTS
  v1=v1 v2=v2 k1=k1 k2=k2
  Viewers={v1,v2} Keys={k1,k2} ClientKeys={c1} Sessions={s1} Ops={o1,o2}
  KeyViewer <- MCKeyViewer PostAs <- MCPostAs
  NoViewer=NoViewer NoSession=NoSession NoOp=NoOp NoKey=NoKey
  MaxAttempts <- MCAttemptsReplayed
  MaxErased <- MCErasedOnce MaxCrashes=2
SPECIFICATION Spec
SYMMETRY MCSymmetry
INVARIANTS TypeOK OneAcceptance PostBehindOperation AnsweredIsPublished
  SideEffectsOnce InvalidationRecordIsTrue RequestKeepsItsGround
PROPERTIES CompletedUndoneOnlyByFinalize ImplementsPublishIntent
CHECK_DEADLOCK FALSE
