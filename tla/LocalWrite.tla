----------------------------- MODULE LocalWrite -----------------------------
(***************************************************************************)
(* conversion.convert and writers.write to a local directory: the          *)
(* destination policy (_check_destination, _prepare_destination), the      *)
(* guards that keep a replace from deleting what it reads                  *)
(* (_reject_source_under_destination, is_within) and the order in which    *)
(* both stand to loading, validating and clearing.                         *)
(*                                                                         *)
(* The file system is a tree of nodes: directories, files, and symbolic    *)
(* links to nodes.  A path is the node its last component names, so that a *)
(* path through a linked directory is a node of the directory linked to.   *)
(* What the writer puts below dest is left out: the guards are about what  *)
(* the call takes away.                                                    *)
(***************************************************************************)
EXTENDS FiniteSets

CONSTANTS
  Nodes, Dirs,
  Root, Home, Cwd,
  Parent,   \* Nodes \ {Root} -> the directory that holds the node
  Above,    \* Nodes -> the node and the directories above it
  Links,    \* the symbolic links
  Resolve,  \* Nodes -> what the node is once all links are followed
  Modes     \* the modes a caller passes: "error", "replace", "append"

ASSUME TreeAssumption ==
  /\ {Root, Home, Cwd} \subseteq Dirs /\ Dirs \subseteq Nodes
  /\ Parent \in [Nodes \ {Root} -> Dirs]
  /\ Above \in [Nodes -> SUBSET Nodes]
  /\ \A n \in Nodes : n \in Above[n]
  /\ \A n \in Nodes \ {Root} : Parent[n] \in Above[n] /\ Parent[n] # n
  /\ \A n \in Nodes : \A m \in Above[n] : Above[m] \subseteq Above[n]
  /\ \A n \in Nodes : \A m \in Above[n] : n \in Above[m] => m = n

ASSUME LinksAssumption ==
  /\ Links \subseteq Nodes \ Dirs
  /\ Resolve \in [Nodes -> Nodes \ Links]
  /\ \A n \in Nodes \ Links : Resolve[n] = n

ASSUME ModesAssumption == Modes \subseteq {"error", "replace", "append"}

VARIABLES
  present,  \* the nodes that exist
  call,     \* the arguments: dest, src (convert only), mode, and what they are worth
  pc,
  inputs,   \* the paths the dataset's records refer to
  entries,  \* what is left of the listing of _prepare_destination
  removed,  \* the nodes the call has deleted
  outcome

vars == <<present, call, pc, inputs, entries, removed, outcome>>

Exists(n) == n \in present /\ Resolve[n] \in present
IsDir(n) == Exists(n) /\ Resolve[n] \in Dirs
\* is_within: both paths resolved.
Within(n, d) == Resolve[d] \in Above[Resolve[n]]
Children(d) == {n \in present \ {Root} : Parent[n] = Resolve[d]}
Subtree(n) == {m \in present : n \in Above[m]}

Conversions == [kind : {"convert"}, dest : Nodes, src : Dirs, mode : Modes, valid : BOOLEAN]
Writes == [kind : {"write"}, dest : Nodes, src : {Root}, mode : Modes, valid : BOOLEAN]

\* valid: the writer exists, consumes the dataset and accepts it and its options.
Init ==
  /\ \E missing \in SUBSET (Nodes \ Dirs) : present = Nodes \ missing
  /\ call \in Conversions \cup Writes
  /\ pc = IF call.kind = "convert" THEN "checking" ELSE "validating"
  /\ IF call.kind = "convert" THEN inputs = {}
     ELSE inputs \in SUBSET {n \in Nodes \ Dirs : Exists(n) /\ ~IsDir(n)}
  /\ entries = {} /\ removed = {}
  /\ outcome = "running"

Goto(label) == pc' = label /\ UNCHANGED outcome
Finish(how) == pc' = "done" /\ outcome' = how

\* The non-directories, protected directories, links and non-empty directories
\* that a mode refuses; missing and empty destinations pass.
Protected(dest) ==
  Resolve[dest] \in Above[Cwd] \cup Above[Home] \cup {Root} \/ dest \in Links

Refused(dest, mode) ==
  \/ Exists(dest) /\ ~IsDir(dest)
  \/ IsDir(dest) /\ mode = "replace" /\ Protected(dest)
  \/ IsDir(dest) /\ mode = "error" /\ Children(dest) # {}

-----------------------------------------------------------------------------
(* convert: check before the source is loaded *)

CheckBeforeLoad ==
  /\ pc = "checking"
  /\ IF Refused(call.dest, call.mode) \/ (call.mode = "replace" /\ Within(call.src, call.dest))
     THEN Finish("refused") ELSE Goto("loading")
  /\ UNCHANGED <<present, call, inputs, entries, removed>>

\* The records of the source refer to files below it or anywhere else; a
\* loader that fails ends the call.
Load ==
  /\ pc = "loading"
  /\ \/ Finish("refused") /\ UNCHANGED inputs
     \/ /\ inputs' \in SUBSET {n \in Nodes \ Dirs : Exists(n) /\ ~IsDir(n)}
        /\ Goto("validating")
  /\ UNCHANGED <<present, call, entries, removed>>

-----------------------------------------------------------------------------
(* write *)

\* Faulty variant: the options are left to the writer.
Validate_Late ==
  /\ pc = "validating"
  /\ Goto("guarding")
  /\ UNCHANGED <<present, call, inputs, entries, removed>>

\* get_writer, consumes, include_images, validate_options, validate_dataset.
Validate ==
  /\ pc = "validating"
  /\ IF call.valid THEN Goto("guarding") ELSE Finish("refused")
  /\ UNCHANGED <<present, call, inputs, entries, removed>>

\* Faulty variant: the paths are compared as written.
SourceUnder_Unresolved(dest) == \E n \in inputs : dest \in Above[n]

SourceUnder(dest) == \E n \in inputs : Within(n, dest)

\* _reject_source_under_destination, in replace mode.
Guard ==
  /\ pc = "guarding"
  /\ IF call.mode = "replace" /\ SourceUnder(call.dest)
     THEN Finish("refused") ELSE Goto("preparing")
  /\ UNCHANGED <<present, call, inputs, entries, removed>>

\* _prepare_destination: check again, list what a replace will clear.
Prepare ==
  /\ pc = "preparing"
  /\ IF Refused(call.dest, call.mode)
     THEN Finish("refused") /\ UNCHANGED entries
     ELSE /\ Goto("clearing")
          /\ entries' = IF call.mode = "replace" /\ IsDir(call.dest)
                        THEN Children(call.dest) ELSE {}
  /\ UNCHANGED <<present, call, inputs, removed>>

Delete(S) == present' = present \ S /\ removed' = removed \cup S

\* Faulty variant: a linked directory is cleared like any other.
Doomed_FollowsLinks(n) ==
  IF IsDir(n) THEN Subtree(Resolve[n]) ELSE Subtree(n)

\* A directory goes with all it holds; a link to one is only unlinked.
Doomed(n) == Subtree(n)

ClearEntry(n) ==
  /\ pc = "clearing" /\ n \in entries
  /\ Delete(Doomed(n))
  /\ entries' = entries \ {n}
  /\ UNCHANGED <<call, pc, inputs, outcome>>

\* rmtree or unlink raises, having deleted some of the entry.
ClearFails(n) ==
  /\ pc = "clearing" /\ n \in entries
  /\ \E S \in SUBSET (Doomed(n) \ {n}) :
       /\ \A d \in S : Subtree(d) \subseteq S
       /\ Delete(S)
  /\ entries' = {}
  /\ Finish("raised")
  /\ UNCHANGED <<call, inputs>>

\* Faulty variant: a write that returns has an outcome of its own name.
Write_Returned ==
  /\ pc = "clearing" /\ entries = {}
  /\ Finish("raised") \/ Finish("returned")
  /\ UNCHANGED <<present, call, inputs, entries, removed>>

\* writer.write: it validates its options again and reads its inputs.
Write ==
  /\ pc = "clearing" /\ entries = {}
  /\ \/ Finish("raised")
     \/ call.valid /\ (\A n \in inputs : Exists(n)) /\ Finish("written")
  /\ UNCHANGED <<present, call, inputs, entries, removed>>

-----------------------------------------------------------------------------
\* Another program creates or deletes a file while the call runs.
Meanwhile(n) ==
  /\ pc # "done" /\ n \in Nodes \ Dirs /\ n \notin inputs
  /\ Parent[n] \in present
  /\ present' = IF n \in present THEN present \ {n} ELSE present \cup {n}
  /\ UNCHANGED <<call, pc, inputs, entries, removed, outcome>>

Call ==
  \/ CheckBeforeLoad \/ Load \/ Validate \/ Guard \/ Prepare \/ Write
  \/ \E n \in Nodes : ClearEntry(n) \/ ClearFails(n)

Next == Call \/ \E n \in Nodes : Meanwhile(n)

Spec == Init /\ [][Next]_vars

-----------------------------------------------------------------------------
(* Properties *)

TypeOK ==
  /\ present \subseteq Nodes /\ inputs \subseteq Nodes
  /\ entries \subseteq Nodes /\ removed \subseteq Nodes
  /\ call \in Conversions \cup Writes
  /\ pc \in {"checking", "loading", "validating", "guarding", "preparing", "clearing", "done"}
  /\ outcome \in {"running", "refused", "raised", "written"}

\* A call that deletes anything was accepted first: nothing is lost to a bad
\* option, a failing loader or a dataset the writer cannot take ("runs before
\* the destination is touched", write), nor in another mode than replace.
DeletesOnlyWhenAccepted ==
  removed # {} => call.mode = "replace" /\ call.valid /\ outcome # "refused"

\* What is deleted lies below the directory dest names, never behind a link,
\* and dest, the working and the home directory stay.
OnlyDestinationCleared ==
  \A n \in removed :
    /\ call.dest \in Above[n] \ {n}
    /\ n \notin Above[Cwd] \cup Above[Home]

\* No file the dataset refers to is deleted, however its path is written and
\* wherever its links lead.
InputFilesSurvive == \A n \in inputs : Resolve[n] \notin removed

\* "clearing it would destroy the writer's own inputs mid-write": an accepted
\* replace leaves every path of the dataset's records readable.
InputPathsSurvive == inputs \cap removed = {}
=============================================================================
