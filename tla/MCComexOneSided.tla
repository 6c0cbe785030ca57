-------------------------- MODULE MCComexOneSided --------------------------
(* Layouts, programs and settings for the model checker.                   *)
EXTENDS ComexOneSided

(* Workers 0 and 1 share progress rank 2.                                  *)
TwoWorkers == 0 .. 1
OneMaster == {2}
TwoMasterOf == [c \in TwoWorkers |-> 2]

PutGet == {"PUT", "GET"}
AccGet == {"ACC", "GET"}
RmwGet == {"FETCH_AND_ADD", "SWAP", "GET"}

(* The operations on the location of each worker.                         *)
Mixed == [c \in Worker |-> IF c = 0 THEN AccGet ELSE PutGet]
RmwAcc == [c \in Worker |-> IF c = 0 THEN RmwGet ELSE AccGet]

(* With a header of one byte and a threshold of four, two bytes are sent   *)
(* eagerly and three are the first that are not, in two chunks.            *)
ShortLong == [c \in Worker |-> IF c = 0 THEN 2 ELSE 3]
LongShort == [c \in Worker |-> IF c = 0 THEN 3 ELSE 2]

(* Puts and accumulates to others go through the progress rank even on a   *)
(* node, gets do not; or only accesses of oneself do not.                  *)
GetShortcuts == {<<"PUT", "SELF">>} \cup ({"GET"} \X {"SELF", "SMP"})
SelfShortcuts == {"GET", "ACC"} \X {"SELF"}

Values == {1, 2}

ThreeOne == [c \in Worker |-> IF c = 0 THEN 3 ELSE 1]

\* The refinement is proved where gets take the shortcuts that puts and
\* accumulates take.
ASSUME ShortcutsForGets == GetsTakeShortcuts
=============================================================================
