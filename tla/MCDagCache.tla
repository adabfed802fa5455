----------------------------- MODULE MCDagCache -----------------------------
(* Model-checking instances of DagCache. *)
EXTENDS DagCache

CONSTANTS t1, t2, t3, gpu0, gpu1, a1, a2

\* Two threads on one device and one on another.
TwoGpus == [t \in {t1, t2, t3} |-> IF t = t3 THEN gpu1 ELSE gpu0]

\* One device, configured twice.
OneGpu == [t \in {t1, t2} |-> gpu0]

\* Room for a new DAG beside the old one's place; on the other device just there.
RoomOfGpus == [d \in Devices |-> IF d = gpu0 THEN {a1, a2} ELSE {a1}]
=============================================================================
