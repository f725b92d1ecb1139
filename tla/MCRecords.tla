----------------------------- MODULE MCRecords -----------------------------
(* The record-keeping parts of one runtime database, keys and workers, and *)
(* recovery and budgets, and the judgements of Authority.  They share no   *)
(* variable and no action, so a behaviour of this run moves one of them    *)
(* and leaves the others at rest; the policy Authority starts from is      *)
(* chosen where it is the one that moves.                                  *)
EXTENDS KeyDirectory, Recovery, MCAuthority

VARIABLE part

MCWindows == {[from |-> 0, until |-> MaxTime]}
MCVars == <<part, keyVars, recoveryVars, vars>>

MCInit == /\ KeysInit /\ RecoveryInit /\ Init /\ part \in {"keys", "recovery", "authority"}
          /\ part # "authority" => policy = FirstPolicy
MCNext == \/ part = "keys" /\ KeysNext /\ UNCHANGED <<part, recoveryVars, vars>>
          \/ part = "recovery" /\ RecoveryNext /\ UNCHANGED <<part, keyVars, vars>>
          \/ part = "authority" /\ Next /\ UNCHANGED <<part, keyVars, recoveryVars>>
MCSpec == MCInit /\ [][MCNext]_MCVars

MCSymmetry == Permutations(Nodes) \cup Permutations(Keys) \cup Permutations(Materials)
=============================================================================
