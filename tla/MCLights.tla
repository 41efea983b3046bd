------------------------------ MODULE MCLights -------------------------------
(* Configurations that share a pin, drop a pin and use both polarities; a    *)
(* photo period that ends, one that runs over midnight, two in a day, one of *)
(* no intensity; two luminaires on a port, a port above 31 and one that the  *)
(* chip refuses.  Three addresses: one adopted, one incoming, one dropped.   *)
EXTENDS Lights

MCDay == 3

At(start, stop, intensity) == [start |-> start, stop |-> stop, intensity |-> intensity]
On(port, high_is_on, periods) ==
    [port |-> port, active_high |-> high_is_on, photo_period |-> periods]

MCLightConfig ==
    {<<On(1, TRUE, {At(0, 1, 255)})>>,
     <<On(1, TRUE, {At(0, 2, 1)}), On(2, TRUE, {At(1, 2, 0)}),
       On(1, FALSE, {At(0, 1, 255), At(2, 0, 255)})>>,
     <<On(2, FALSE, {}), On(33, TRUE, {At(0, 2, 0), At(1, 2, 255)})>>,
     <<On(31, TRUE, {At(0, 2, 255)})>>}
=============================================================================
