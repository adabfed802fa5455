--------------------------- MODULE MCDagGeneration ---------------------------
(* Model-checking instance of DagGeneration: items of two words and numbers  *)
(* below eight, with a DAG of three items in epoch 0, one of four in epoch 1, *)
(* which fills the numbers, and one of five in epoch 2, which does not fit.   *)
EXTENDS DagGeneration

ASSUME SmallLayout ==
  \A e \in Epochs :
    /\ ItemsApart(DagItems(e)) <=> e < 2
    /\ SearchReadsDag(DagItems(e))
    /\ \A h \in 0..7 : CacheReadInside(e, h)
=============================================================================
