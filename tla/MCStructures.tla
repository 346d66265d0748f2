---------------------------- MODULE MCStructures ----------------------------
(***************************************************************************)
(* Data structures and what their readers may rely on, in one run.  They   *)
(* share no state: every behaviour is one of one of them, the others       *)
(* staying in their initial states.                                        *)
(***************************************************************************)
EXTENDS SeqLock, BlList, RcuList, KList, PcmIndirect, MCIpSetNets, TLC

CONSTANTS a, b, c  \* the nodes of the lists

VARIABLE part  \* the one that runs

StructuresVars == <<part, vars, bl_vars, rl_vars, kl_vars, pi_vars, nets_vars>>

StructuresInit ==
    /\ part \in {"seqlock", "bl_list", "rcu_list", "list", "pcm", "networks"}
    /\ Init /\ BlInit /\ RlInit /\ KlInit /\ PiInit /\ NetsInit
    /\ part # "networks" => with_timeout
    /\ part # "pcm" => PiPlayback

StructuresNext ==
    \/ part = "seqlock" /\ Next /\ UNCHANGED <<part, bl_vars, rl_vars, kl_vars, pi_vars, nets_vars>>
    \/ part = "bl_list" /\ BlNext /\ UNCHANGED <<part, vars, rl_vars, kl_vars, pi_vars, nets_vars>>
    \/ part = "rcu_list" /\ RlNext /\ UNCHANGED <<part, vars, bl_vars, kl_vars, pi_vars, nets_vars>>
    \/ part = "list" /\ KlNext /\ UNCHANGED <<part, vars, bl_vars, rl_vars, pi_vars, nets_vars>>
    \/ part = "pcm" /\ PiNext /\ UNCHANGED <<part, vars, bl_vars, rl_vars, kl_vars, nets_vars>>
    \/ part = "networks" /\ NetsNext /\ UNCHANGED <<part, vars, bl_vars, rl_vars, kl_vars, pi_vars>>

StructuresSpec == StructuresInit /\ [][StructuresNext]_StructuresVars

\* The type invariants of the parts: every pointer, counter and position is
\* one the code's types and ranges allow.
StructuresTypeOK ==
    TypeOK /\ BlTypeOK /\ RlTypeOK /\ KlTypeOK /\ PiTypeOK /\ NetsTypeOK

\* The nodes of a list are interchangeable.
StructuresSymmetry == Permutations({a, b, c})
=============================================================================
