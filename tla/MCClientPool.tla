---------------------------- MODULE MCClientPool ----------------------------
(* Two endpoints of different priority, of which the second is healthy, and *)
(* updates that swap an endpoint, change its priority or drop all of them. *)
EXTENDS ClientPool, TLC

First == ("a" :> 1 @@ "b" :> 2)
Swapped == ("c" :> 1 @@ "b" :> 1)
Other == ("c" :> 2)
Nobody == [e \in {} |-> 0]

FirstOnly == {First}
TwoConfigs == {First, Swapped}
ThreeConfigs == {First, Swapped, Other}
OneAndNone == {First, Nobody}
=============================================================================
