----------------------------- MODULE MCIpSetNets -----------------------------
(***************************************************************************)
(* Instances of IpSetNets for TLC, with addresses of four and three bits.  *)
(***************************************************************************)
EXTENDS IpSetNets

\* Nested and disjoint networks of three of the four sizes.
MCNet == {<<0, 1>>, <<0, 2>>, <<4, 2>>, <<5, 4>>, <<0, 4>>}

\* A network of every size there is.
MCNetAll == {<<0, 1>>, <<0, 2>>, <<0, 3>>}
=============================================================================
