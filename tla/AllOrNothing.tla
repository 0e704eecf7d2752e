----------------------------- MODULE AllOrNothing -----------------------------
(***************************************************************************)
(* What commit_catalog_rollout_transaction and                             *)
(* recover_catalog_rollout_transaction of                                  *)
(* scripts/catalog_rollout_evidence.py promise their callers about the     *)
(* files of a transaction, whatever evidence they keep to do so.           *)
(*                                                                         *)
(* A transaction is a record of prior and desired contents.  It is open    *)
(* while its journal is at its name.  Files are changed only while it is   *)
(* open, only from and to what the record names, and it closes only when   *)
(* every file holds the desired bytes.                                     *)
(***************************************************************************)
CONSTANTS Target, Content, NoFile

State  == Content \cup {NoFile}
Record == [prior : [Target -> State], want : [Target -> Content]]

VARIABLES
  store,    \* [Target -> State]
  open,     \* the journal is at its name
  record,   \* the last transaction, or NoFile while the next is prepared
  foreign   \* files others have written since the record's prior was read

vars == <<store, open, record, foreign>>

TypeOK ==
  /\ store \in [Target -> State]
  /\ open \in BOOLEAN
  /\ record \in Record \cup {NoFile}
  /\ foreign \subseteq Target

Init ==
  /\ store \in [Target -> State]
  /\ open = FALSE /\ record = NoFile /\ foreign = {}

\* The prior contents are read.
Prepare ==
  /\ ~open
  /\ record' = NoFile /\ foreign' = {}
  /\ UNCHANGED <<store, open>>

Open ==
  /\ ~open /\ record = NoFile
  /\ open' = TRUE /\ record' \in Record
  /\ \A t \in Target \ foreign : record'.prior[t] = store[t]
  /\ UNCHANGED <<store, foreign>>

\* One file moves between its prior contents, nothing, and its desired ones.
Apply(t) ==
  /\ open
  /\ LET named == {record.prior[t], record.want[t], NoFile}
     IN store[t] \in named /\ \E c \in named : store' = [store EXCEPT ![t] = c]
  /\ UNCHANGED <<open, record, foreign>>

Close ==
  /\ open
  /\ \A t \in Target : store[t] = record.want[t]
  /\ open' = FALSE
  /\ UNCHANGED <<store, record, foreign>>

\* An interrupted removal, or a file found changed during one, brings the
\* journal back.
Reopen ==
  /\ ~open /\ record # NoFile
  /\ open' = TRUE
  /\ UNCHANGED <<store, record, foreign>>

Foreign(t) ==
  /\ \E c \in State : store' = [store EXCEPT ![t] = c]
  /\ foreign' = foreign \cup {t}
  /\ UNCHANGED <<open, record>>

Next == \/ Prepare \/ Open \/ Close \/ Reopen
        \/ \E t \in Target : Apply(t) \/ Foreign(t)

Spec == Init /\ [][Next]_vars

-------------------------------------------------------------------------------
\* All or nothing: a closed transaction has every file at its desired bytes.
Promised ==
  ~open /\ record # NoFile =>
    \A t \in Target \ foreign : store[t] = record.want[t]
===============================================================================
