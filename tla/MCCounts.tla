------------------------------ MODULE MCCounts ------------------------------
(* A small instance of Counts for TLC, with two ways to begin: a count to be  *)
(* opened, filled in and posted next to movements; or two counts of the same  *)
(* items, filled in, that are posted at once while items are archived.        *)
EXTENDS Counts

CONSTANTS d1, d2

\* Items and clients are interchangeable: all may be archived, all are owners.
CountSymmetry == Permutations(Items) \cup Permutations(Clients)

FilledIn ==
  /\ Init
  /\ docStatus = [d \in Docs |-> "draft"]
  /\ lines = [d \in Docs |-> Empty([expected |-> 0, counted |-> 1])]
  /\ task = [c \in Clients |-> NoTask]

MCInit == CountsInit \/ FilledIn

\* The second document is there from the beginning or never.
TwoDocuments == docStatus[d2] # "none"

OpenOne == ~ TwoDocuments /\ \E S \in SUBSET Items : CreateCount(d1, S)

BeginHere(c) ==
  \/ ~ TwoDocuments /\ (BeginMovement(c) \/ BeginCount(c, d1))
  \/ TwoDocuments /\ \E d \in Docs, force \in BOOLEAN : StartPostCount(c, d, force)

ArchiveOne == TwoDocuments /\ \E i \in Items : ArchiveCounted(i)

MCNext ==
  \/ OpenOne
  \/ ArchiveOne
  \/ \E c \in Clients :
       \/ BeginHere(c)
       \/ CountStep(c)
       \/ Abort(c) /\ EndTask(c) /\ UNCHANGED documents

MCSpec == MCInit /\ [][MCNext]_countVars

=============================================================================
