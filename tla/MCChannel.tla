------------------------------ MODULE MCChannel -------------------------------
(* Two producers, two consumers and a destroyer over three messages: a push *)
(* can overtake a pop that is clearing the event, two consumers can be woken*)
(* by one byte, and a clear can race with both.                             *)
EXTENDS Channel
CONSTANTS p1, p2, c1, c2, d1, m1, m2, m3

MCProducers == {p1, p2}
MCConsumers == {c1, c2}
MCMsg == {m1, m2, m3}
===============================================================================
