---------------------------- MODULE MCFailover ----------------------------
(* Three cameras: the main one, its backup and the backup's own backup.    *)
EXTENDS Failover
CONSTANTS main, wide, clip

To(b, after, back, auto) == [backup |-> b, after |-> after, back |-> back, auto |-> auto]
Auto == To(wide, 1, 2, TRUE)
Manual == To(wide, 1, 2, FALSE)
Patient == To(wide, 2, 2, TRUE)
Onward == To(clip, 0, 1, TRUE)

AllRules == {Auto, Manual, Patient} \cup (IF clip \in Sources THEN {Onward} ELSE {})
Alone == [s \in Sources |-> IF s = main THEN Auto ELSE None]
Slow == [s \in Sources |-> IF s = main THEN Patient ELSE None]
Chained == [s \in Sources |-> IF s = main THEN Auto ELSE IF s = wide THEN Onward ELSE None]
Clearing == {None}
Again == {Patient, None}
Anything == {Auto, Manual, None}
=============================================================================
