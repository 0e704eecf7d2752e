-------------------------- MODULE EvidenceInvariant --------------------------
(***************************************************************************)
(* The inductive invariant of ImmutableEvidence.                           *)
(***************************************************************************)
EXTENDS ImmutableEvidence

Looking == {"placed", "check", "place", "recheck", "replace"}
Staging == {"write", "seal", "rename"}
Removing == {"bury", "retire", "hide", "unlink"}
PublishStatements == {"parent", "look", "mkdir", "open", "cleanup"} \cup Staging \cup Looking
WriteStatements   == {"scan", "recover", "create", "fill", "link", "compare"} \cup Removing

Kind == {"new", "tmp", "delete", "rollback", "private", "gone"}
Name == [file : Temp \cup {Nothing}, turn : Nat]

Handling == {"fill", "link", "compare", "bury"}

\* Well-typed files, calls and history.
DiskOK ==
  /\ at \in [Dir -> Snapshot \cup Process \cup {"left", "free"}]
  /\ files \in [Dir -> [File -> Bytes \cup {Nothing}]]
  /\ receipt \in Bytes \cup {Nothing}
  /\ temp \in [Temp -> [kind : Kind, turn : Nat, bytes : Bytes \cup {Nothing}]]

LocalsOK ==
  /\ pc \in [Process -> {"idle"} \cup PublishStatements \cup WriteStatements]
  /\ call \in [Process -> [key : Snapshot \cup {Receipt, Nothing}, want : Content \cup Bytes \cup {Nothing}]]
  /\ role \in [Process -> {"finder", "loser", "winner"}]
  /\ dir \in [Process -> Dir \cup {Nothing}]
  /\ todo \in [Process -> SUBSET [file : Temp, turn : Nat]]
  /\ old \in [Process -> Name]
  /\ own \in [Process -> Temp \cup {Nothing}]
  /\ ok \in [Process -> BOOLEAN]

HistoryOK ==
  /\ lost \subseteq Snapshot \cup {Receipt}
  /\ \A c \in confirmed : c[1] \in Snapshot \cup {Receipt} /\ c[2] # Nothing
  /\ used \in [calls : 0..MaxCall, crashes : 0..MaxCrash, losses : 0..MaxLoss]

TypeOK == DiskOK /\ LocalsOK /\ HistoryOK

\* One directory at a name.
OneDir == \A d, e \in Dir : (at[d] = at[e] /\ at[d] \notin {"free", "left"}) => d = e

\* What has a snapshot's name is a whole snapshot; only the base can be hollow.
Whole ==
  \A d \in Dir :
    /\ at[d] \in Revision => files[d] \in Content
    /\ at[d] = Base => files[d] \in Content \cup {Hollow}
    /\ at[d] = "free" => files[d] = Hollow

\* A call is what its statement says.
CallOK(p) ==
  /\ pc[p] \in PublishStatements => call[p].key \in Snapshot /\ call[p].want \in Content
  /\ pc[p] \in WriteStatements => call[p].key = Receipt /\ call[p].want \in Bytes

\* A staging directory belongs to a call that fills it, has lost, or removes it.
StagedOK(p) ==
  /\ pc[p] \in Staging => dir[p] # Nothing /\ at[dir[p]] = p
  /\ pc[p] = "write" => \A f \in File : files[dir[p]][f] \in {Nothing, call[p].want[f]}
  /\ pc[p] = "rename" => files[dir[p]] = call[p].want
  /\ At(p) # {} => \/ pc[p] \in Staging \cup {"open", "cleanup"}
                   \/ pc[p] \in Looking /\ role[p] = "loser"
  /\ pc[p] = "open" => role[p] = "loser"
  /\ pc[p] = "cleanup" => At(p) # {}

\* What a call has seen at its name is still there, unless somebody removed it.
SeenOK(p) ==
  /\ pc[p] \in Looking => dir[p] # Nothing /\ (call[p].key \in lost \/ at[dir[p]] = call[p].key)
  /\ pc[p] \in {"place", "recheck", "replace"} =>
       call[p].key \in lost \/ files[dir[p]] = call[p].want
  /\ (pc[p] = "cleanup" /\ ok[p]) =>
       call[p].key \in lost \/ Register[call[p].key] = call[p].want
  /\ (pc[p] \in Removing /\ own[p] # Nothing /\ ok[p]) =>
       Receipt \in lost \/ receipt = call[p].want

\* The temporary file of a call is its own and, once filled, holds its bytes.
OwnedOK(p) ==
  /\ own[p] # Nothing => /\ pc[p] \in Handling \cup Removing
                         /\ temp[own[p]].kind # "new"
  /\ pc[p] \in {"fill", "link", "compare"} =>
       own[p] # Nothing /\ temp[own[p]].kind = "tmp" /\ temp[own[p]].turn = 0
  /\ pc[p] \in {"link", "compare"} => temp[own[p]].bytes = call[p].want
  /\ pc[p] \in Removing => old[p].file # Nothing

\* An entry on its way out is handled by one call, under the name it gave it.
HandledOK(p) ==
  /\ (pc[p] = "bury" /\ own[p] # Nothing) => old[p].file = own[p] /\ Named(old[p], "tmp")
  /\ pc[p] = "retire" => Named(old[p], "delete")
  /\ pc[p] = "unlink" => Named(old[p], "private")

Calls   == \A p \in Process : CallOK(p)
Staged  == \A p \in Process : StagedOK(p)
Seen    == \A p \in Process : SeenOK(p)
Owned   == \A p \in Process : OwnedOK(p)
Handled == \A p \in Process : HandledOK(p)

\* No two calls have a hand in one temporary file.
Apart ==
  \A p, q \in Process : p # q =>
    /\ own[p] # Nothing => own[p] # own[q]
    /\ (pc[p] \in {"retire", "unlink"} /\ pc[q] \in {"retire", "unlink"}) =>
         old[p].file # old[q].file

\* Who is to remove temporary file t.
Keeper(t, p) ==
  \/ temp[t].kind = "tmp" /\ own[p] = t /\ pc[p] \in Handling
  \/ /\ old[p].file = t
     /\ \/ temp[t].kind = "delete" /\ pc[p] = "retire"
        \/ temp[t].kind = "rollback" /\ pc[p] = "hide" /\ Named(old[p], "rollback")
        \/ temp[t].kind = "private" /\ pc[p] = "unlink"

\* Until a process dies, whatever is to be removed has somebody who will.
Attended ==
  used.crashes = 0 =>
    /\ \A d \in Dir : at[d] # "left"
    /\ \A t \in Temp : temp[t].kind \notin {"new", "gone"} => \E p \in Process : Keeper(t, p)

EvidenceInv ==
  /\ TypeOK
  /\ OneDir /\ Whole /\ Calls
  /\ Staged /\ Seen
  /\ Owned /\ Handled /\ Apart
  /\ Attended /\ Confirmed
===============================================================================
