------------------------------ MODULE MCTaskPath ------------------------------
(* The lists of classes for the runs of TaskPath.                            *)
EXTENDS TaskPath

\* one class, which the agent knows by another label: the broker takes it by its index
OneClass == <<"w1">>
OneAction == <<"w3">>

\* the agent lists the classes in another order than the broker, and a prefixed one more, for which
\* the broker has neither the label nor the index
TwoClasses == <<"w1", "w2">>
ThreeActions == <<"w2", "w1", "external_w2">>

===============================================================================
