---------------------------- MODULE MCComexMutex ----------------------------
(* Layouts of ranks on nodes for the model checker.                        *)
EXTENDS ComexMutex

(* One node: workers 0..2, progress rank 3.                                *)
OneNodeWorkers == 0 .. 2
OneNodeMasters == {3}
OneNodeMasterOf == [c \in OneNodeWorkers |-> 3]
OneNodeHost == [c \in OneNodeWorkers |-> 0]

(* Every worker may create any number of mutexes.                          *)
AnyCount == [c \in Worker |-> 0 .. MaxMutexes]

\* The theorem about indices holds where the worker that speaks for its node
\* has none but workers below it.
ASSUME WorkersBelow == NotifiersFirst
=============================================================================
