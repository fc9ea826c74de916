------------------------ MODULE MCRestaurantPayout ------------------------
(* RestaurantPayout as it is: two master nodes, one of them with a timer.  *)
EXTENDS RestaurantPayout
=============================================================================
