-------------------------- MODULE ReplaceContract --------------------------
(***************************************************************************)
(* What a replace-mode write on an object store promises (the docstring of *)
(* writers._write_remote_staged_replace): the old dataset is replaced by   *)
(* the new one, or stays; while dest holds neither, a copy of the old one  *)
(* exists; and the caller is told which.                                   *)
(***************************************************************************)
VARIABLES
  content,  \* what dest holds: "old", "mixed" or "new"
  saved,    \* is every object of the old dataset in the backup?
  result    \* what the caller has been told

vars == <<content, saved, result>>

Init == content = "old" /\ saved \in BOOLEAN /\ result = "pending"

\* The backup is taken, or given up once dest holds one whole dataset.
Backup ==
  /\ saved' \in BOOLEAN
  /\ saved' \/ content # "mixed"
  /\ UNCHANGED <<content, result>>

\* dest is taken apart, or put together again from the backup.
Alter ==
  /\ saved /\ result = "pending"
  /\ <<content, content'>> \in {<<"old", "mixed">>, <<"mixed", "old">>}
  /\ UNCHANGED <<saved, result>>

\* The new dataset is whole; only then is the caller told so.
Commit ==
  /\ content \in {"old", "mixed"} /\ result = "pending"
  /\ content' = "new" /\ result' = "returned"
  /\ UNCHANGED saved

\* The write failed and the old dataset is whole.
Refuse ==
  /\ content = "old" /\ result = "pending"
  /\ result' = "raised"
  /\ UNCHANGED <<content, saved>>

\* The call is interrupted, or can neither finish nor undo its work: the caller
\* learns nothing of dest, and nothing is done to it any more.
Abandon ==
  /\ result' = "abandoned"
  /\ UNCHANGED <<content, saved>>

Next == Backup \/ Alter \/ Commit \/ Refuse \/ Abandon

Spec == Init /\ [][Next]_vars
=============================================================================
