--------------------------- MODULE MCPeripherals ----------------------------
(* Two requests: rotations of the password, and patches of the other keys.   *)
EXTENDS Peripherals

body(gms, brokers, mech, pw) == [gms |-> gms, brokers |-> brokers, mech |-> mech, pw |-> pw]

MCBodies ==
  {body("none", "b1", "SCRAM", "p1"), body("none", "none", "none", "p2"),
   body("none", "msk", "AWS_MSK_IAM", "none"), body("g2", "b1", "none", "none")}

MCStarts ==
  {<<NoRow, "">>, <<[gms |-> "g1", brokers |-> "b1", mech |-> "SCRAM", version |-> 1], "p1">>}
==============================================================================
