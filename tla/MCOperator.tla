----------------------------- MODULE MCOperator -----------------------------
(* The files an operator keeps: the tokens file and the trust store, with  *)
(* two names and two commands at a time, and backups of two files.  They   *)
(* share no state, so a behaviour is about one of them alone, `part`.      *)
(* Nothing is promised once a backup was changed under a running job: such *)
(* states are reached and not followed.                                    *)
EXTENDS OperatorStores, BackupRestore, TLC

VARIABLE part

operatorVars == <<part, storesVars, backupVars>>

(* The part that rests keeps one of its initial states. *)
OperatorInit ==
    /\ part \in {"stores", "backup"}
    /\ StoresInit /\ (part = "backup" => store = "tokens")
    /\ BackupInit /\ (part = "stores" => live = [f \in Files |-> CHOOSE c \in Contents : TRUE])

OperatorNext ==
    \/ part = "stores" /\ StoresNext /\ UNCHANGED <<part, backupVars>>
    \/ part = "backup" /\ BackupNext /\ UNCHANGED <<part, storesVars>>

OperatorSpec == OperatorInit /\ [][OperatorNext]_operatorVars

Undisturbed == ~altered

Symmetry == Permutations(Names) \cup Permutations(Commands)

=============================================================================
