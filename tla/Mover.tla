-------------------------------- MODULE Mover -------------------------------
(***************************************************************************)
(* What `archive` and `restore` promise the owner of a directory, without  *)
(* the machinery: an entry lives locally, at destinations, or both.  Only  *)
(* the owner decides what the directory is to hold; a local entry is       *)
(* dropped only where a destination holds the same content, and a copy is  *)
(* discarded only where the same content is held locally.                  *)
(***************************************************************************)
CONSTANTS Sources, Destinations, Names, Contents, NoEntry

VARIABLES
  local,    \* what each directory holds
  remote,   \* what each destination holds of it
  wanted    \* what its owner last stored under each name

mover == <<local, remote, wanted>>

Tree == [Names -> Contents \cup {NoEntry}]

Init ==
  /\ local \in [Sources -> Tree] /\ wanted = local
  /\ remote = [place \in Destinations \X Sources |-> [n \in Names |-> NoEntry]]

(* The owner stores, replaces or deletes an entry: no other step changes     *)
(* what is wanted, so that no removal can pass for the owner's.              *)
Store(s, n) ==
  \E c \in Contents \cup {NoEntry} :
    /\ local' = [local EXCEPT ![s][n] = c]
    /\ wanted' = [wanted EXCEPT ![s][n] = c]
    /\ UNCHANGED remote

(* An entry is copied to a destination. *)
Copy(s, d, n) ==
  /\ local[s][n] # NoEntry
  /\ remote' = [remote EXCEPT ![<<d, s>>][n] = local[s][n]]
  /\ UNCHANGED <<local, wanted>>

(* A local entry is dropped: the destination holds it. *)
Drop(s, d, n) ==
  /\ local[s][n] = remote[<<d, s>>][n]
  /\ local' = [local EXCEPT ![s][n] = NoEntry]
  /\ UNCHANGED <<remote, wanted>>

(* A missing entry is fetched, never an older version of a wanted one. *)
Fetch(s, d, n) ==
  /\ local[s][n] = NoEntry
  /\ wanted[s][n] \in {NoEntry, remote[<<d, s>>][n]}
  /\ local' = [local EXCEPT ![s][n] = remote[<<d, s>>][n]]
  /\ UNCHANGED <<remote, wanted>>

(* A destination's copy of an entry is discarded: it is held locally. *)
Discard(s, d, n) ==
  /\ remote[<<d, s>>][n] = local[s][n]
  /\ remote' = [remote EXCEPT ![<<d, s>>][n] = NoEntry]
  /\ UNCHANGED <<local, wanted>>

Next ==
  \E s \in Sources, n \in Names :
    \/ Store(s, n)
    \/ \E d \in Destinations :
         Copy(s, d, n) \/ Drop(s, d, n) \/ Fetch(s, d, n) \/ Discard(s, d, n)

Spec == Init /\ [][Next]_mover
=============================================================================
