--------------------------- MODULE MCSceneServer ---------------------------
(* A scene with two items, or two records of their own, and two clients.   *)
EXTENDS SceneServer
CONSTANTS scene, logo, clock, laptop, phone
TwoBox == [r \in Records |-> IF r = scene THEN NoParent ELSE scene]
Loose == [r \in Records |-> NoParent]
Chain == [r \in Records |-> IF r = clock THEN logo ELSE IF r = logo THEN scene ELSE NoParent]
OneBox == [r \in Records |-> IF r = logo THEN scene ELSE NoParent]
=============================================================================
