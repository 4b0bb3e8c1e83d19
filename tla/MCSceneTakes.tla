---------------------------- MODULE MCSceneTakes ----------------------------
(* SceneTakes with a laptop that has two connections open and a phone with one. *)
EXTENDS SceneTakes, TLC
CONSTANTS laptop, phone, page, popup, app
Parts == page :> {"draft", "take", "leave"} @@ popup :> {"show", "leave"}
         @@ app :> {"edit", "take", "arm"}
Interchangeable == Permutations(Scenes)
Owners == page :> laptop @@ popup :> laptop @@ app :> phone
=============================================================================
