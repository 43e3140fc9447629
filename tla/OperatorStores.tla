--------------------------- MODULE OperatorStores ---------------------------
(***************************************************************************)
(* The two files an operator's commands rewrite while the server reads     *)
(* them: the tokens file of node_channel.py (`node-token issue`,           *)
(* `node-token revoke`) and the trust store of trust_store.py (`trust      *)
(* add`, `trust revoke`).  A command reads the whole document, changes one *)
(* entry in memory, writes the document to <file>.tmp and renames that     *)
(* over the file.  There is no lock: two commands at the same time share   *)
(* the name <file>.tmp, and through it the same open file.  A command may  *)
(* be killed at every step.  The two files have nothing in common, so a    *)
(* behaviour is about one of them, `store`.                                *)
(*                                                                         *)
(* A document maps every name (node or alias) to the key it holds, or to   *)
(* Null, and whether it is revoked.  Keys of the tokens file stand for the *)
(* hashes of the tokens made, in order.  A file that is empty or of which  *)
(* two writers have left a mixture is Broken: it does not parse.           *)
(***************************************************************************)
EXTENDS Naturals, FiniteSets

CONSTANTS
    Names,     \* nodes of the tokens file, aliases of the trust store
    Commands,  \* runs of the commands at the same time
    Null,
    Broken,    \* the content of a file that does not parse
    MaxKeys    \* bound: tokens made, keys given to trust add

Stores == {"tokens", "trust"}
Keys == 1..MaxKeys
Inodes == 0..(Cardinality(Commands) + 1)

ASSUME StoresAssumption ==
    /\ MaxKeys \in Nat /\ IsFiniteSet(Commands)
    /\ Null \notin Nat
    /\ Broken \notin [Names -> [key : Nat \cup {Null}, revoked : BOOLEAN]]

VARIABLES
    store,       \* the store this behaviour is about
    file,        \* the inode the name of the store points to, or Null
    tmp,         \* the inode of <file>.tmp, or Null
    data,        \* data[i]: what the inode i holds
    run,         \* what each run of a command is doing
    made,        \* tokens made, or keys added, so far
    settled,     \* observer: the entries as the finished commands left them
    overlapped   \* observer: two commands have overlapped

storesVars == <<store, file, tmp, data, run, made, settled, overlapped>>

-----------------------------------------------------------------------------
NoEntry == [key |-> Null, revoked |-> FALSE]
EmptyDoc == [n \in Names |-> NoEntry]
Resting == [pc |-> "resting", name |-> Null, doc |-> Null, inode |-> Null]

(* load_tokens, load_trust_store: an absent file is an empty document. *)
Doc == IF file = Null THEN EmptyDoc ELSE data[file]

Open == {run[a].inode : a \in Commands}
Free == Inodes \ ({file, tmp} \cup Open)

StoresInit ==
    /\ store \in Stores
    /\ file = Null
    /\ tmp = Null
    /\ data = [i \in Inodes |-> Broken]
    /\ run = [a \in Commands |-> Resting]
    /\ made = 0
    /\ settled = EmptyDoc
    /\ overlapped = FALSE

(* Mutant: the document saved has the changed entry only. *)
StartForgets(a, n, entry) ==
    /\ run' = [run EXCEPT ![a] = [pc |-> "loaded", name |-> n, inode |-> Null,
                                  doc |-> [EmptyDoc EXCEPT ![n] = entry]]]
    /\ overlapped' = (overlapped \/ \E b \in Commands : run[b] # Resting)
    /\ UNCHANGED <<store, file, tmp, data, settled>>

(* The document is in memory, changed: what is left is to save it. *)
Start(a, n, entry) ==
    /\ run' = [run EXCEPT ![a] = [pc |-> "loaded", name |-> n, inode |-> Null,
                                  doc |-> [Doc EXCEPT ![n] = entry]]]
    /\ overlapped' = (overlapped \/ \E b \in Commands : run[b] # Resting)
    /\ UNCHANGED <<store, file, tmp, data, settled>>

(* The command can read the store. *)
Ready(a) == run[a] = Resting /\ Doc # Broken

(* issue_token up to the change of the entry; the token is a new one. *)
IssueToken(a, n) ==
    /\ store = "tokens" /\ Ready(a)
    /\ made < MaxKeys
    /\ made' = made + 1
    /\ Start(a, n, [key |-> made + 1, revoked |-> FALSE])

(* revoke_token, TrustStore.with_revoked: the name has to be known. *)
Revoke(a, n) ==
    /\ Ready(a)
    /\ Doc[n].key # Null
    /\ Start(a, n, [Doc[n] EXCEPT !.revoked = TRUE])
    /\ UNCHANGED made

(* Mutant: adding a key that is there already lifts its revocation. *)
WithKeyLifts(entry, k) == [key |-> k, revoked |-> FALSE]

WithKey(entry, k) == [entry EXCEPT !.key = k]

(* TrustStore.with_key: an alias never changes its key. *)
AddKey(a, n, k) ==
    /\ store = "trust" /\ Ready(a)
    /\ made < MaxKeys
    /\ made' = made + 1
    /\ Doc[n].key \in {Null, k}
    /\ Start(a, n, WithKey(Doc[n], k))

FirstFree == CHOOSE i \in Free : \A j \in Free : i <= j

(* The inode that opening <file>.tmp for writing yields. *)
Target == IF tmp # Null THEN tmp ELSE FirstFree

(* open with O_CREAT and O_TRUNC. *)
OpenTmp(a) ==
    /\ run[a].pc = "loaded"
    /\ tmp' = Target
    /\ data' = [data EXCEPT ![Target] = Broken]
    /\ run' = [run EXCEPT ![a].pc = "opened", ![a].inode = Target]
    /\ UNCHANGED <<store, file, made, settled, overlapped>>

(* The document is written from the start of the open file.  Over another  *)
(* one it replaces that, or leaves the end of it behind.                   *)
WriteTmp(a) ==
    /\ run[a].pc = "opened"
    /\ \E content \in {run[a].doc, Broken} :
          /\ data[run[a].inode] = Broken => content # Broken
          /\ data' = [data EXCEPT ![run[a].inode] = content]
    /\ run' = [run EXCEPT ![a].pc = "written"]
    /\ UNCHANGED <<store, file, tmp, made, settled, overlapped>>

(* os.replace: whatever <file>.tmp is now becomes the file, and the old    *)
(* inode is gone unless a command has it open.  If another command has     *)
(* already renamed <file>.tmp the call fails and the command with it.      *)
Replace(a) ==
    /\ run[a].pc = "written"
    /\ \/ /\ tmp # Null
          /\ file' = tmp
          /\ tmp' = Null
          /\ data' = [i \in Inodes |-> IF i = file /\ file \notin Open THEN Broken ELSE data[i]]
          /\ settled' = [settled EXCEPT ![run[a].name] = run[a].doc[run[a].name]]
       \/ tmp = Null /\ UNCHANGED <<file, tmp, data, settled>>
    /\ run' = [run EXCEPT ![a] = Resting]
    /\ UNCHANGED <<store, made, overlapped>>

(* The command is killed, or cannot write; <file>.tmp is left behind. *)
Kill(a) ==
    /\ run[a] # Resting
    /\ run' = [run EXCEPT ![a] = Resting]
    /\ UNCHANGED <<store, file, tmp, data, made, settled, overlapped>>

StoresNext ==
    \E a \in Commands :
        \/ \E n \in Names : IssueToken(a, n) \/ Revoke(a, n) \/ \E k \in Keys : AddKey(a, n, k)
        \/ OpenTmp(a) \/ WriteTmp(a) \/ Replace(a) \/ Kill(a)

StoresSpec == StoresInit /\ [][StoresNext]_storesVars

-----------------------------------------------------------------------------
(* While no two commands have overlapped, the file holds exactly what the  *)
(* finished commands said, entry by entry, whatever commands were killed   *)
(* half way and whatever <file>.tmp they left.                             *)
SettledUnlessOverlap == ~overlapped => Doc = settled

Live(n) == IF Doc # Broken /\ ~Doc[n].revoked THEN Doc[n].key ELSE Null

(* A revocation holds: without overlapping commands, an alias that is      *)
(* revoked never verifies a signature again, and a token that is not live  *)
(* becomes live only by being issued, as a new one.                        *)
RevocationSticks ==
    [][~overlapped' => \A n \in Names :
          /\ (store = "trust" /\ Doc[n].revoked) => Doc'[n].revoked
          /\ (store = "tokens" /\ Live(n)' \notin {Null, Live(n)}) =>
                (Doc[n].key = Null \/ Live(n)' > Doc[n].key)]_storesVars

=============================================================================
