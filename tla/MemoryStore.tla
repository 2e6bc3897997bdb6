----------------------------- MODULE MemoryStore -----------------------------
(***************************************************************************)
(* What the assistant remembers (libs/memory) and the evolution engine     *)
(* that tidies it up (libs/evolution): one file per entry, in a directory  *)
(* per scope, and no lock.  Several processes use the directory at once:   *)
(* turns, which recall at their start and now and then consolidate at      *)
(* their end, and the commands `omh memory` and `omh evolution`.           *)
(*                                                                         *)
(* A text is the set of facts it states and whether it is padded with      *)
(* whitespace; one text contains another when, whitespace aside, it states *)
(* at least as much.  Every entry is one the user has added (or a merge of *)
(* such): what a turn extracts is stored for its agent only, where nothing *)
(* consolidates it and no turn is given it.  Left out: scores, the limits  *)
(* of recall (60 entries a scope, 20 in all, 2048 characters), the model's *)
(* ranking, and what has no caller (learn_from_correction, supersede,      *)
(* reinforce).  No caller stores a confidence under 0.5, so consolidate    *)
(* never prunes.                                                           *)
(***************************************************************************)
EXTENDS Integers, FiniteSets

CONSTANTS
  Fact,         \* what an entry can state
  Texts,        \* what the user types in: entries without their time stamps
  Recaller,         \* sessions whose turns use the memory
  Consolidation,      \* runs of `omh evolution consolidate`
  MaxEntries,   \* bound of the model: entries ever written
  MaxDeaths     \* bound of the model: processes that die

ASSUME MemoryBounds ==
  /\ IsFiniteSet(Fact) /\ Texts \subseteq [facts : (SUBSET Fact) \ {{}}, padded : BOOLEAN]
  /\ "user" \notin Recaller \cup Consolidation
  /\ MaxEntries \in Nat /\ MaxDeaths \in Nat

VARIABLES
  entries,    \* the entry in the file of each id, or Absent, or Blank
  used,       \* ids given out
  doing,      \* what each process does
  names,      \* the files it has yet to read, or to forget
  removing,   \* of these the one that find_entry has found
  found,      \* the entries it has read and not yet dealt with, with their ids
  writing,    \* the entry it writes, under id used when it began: at most one
  query,      \* recall: what was owed when it began and still is
  owed,       \* facts the user has added and not forgotten
  dropped,    \* facts a merge has left out
  deaths

memVars == <<entries, used, doing, names, removing, found, writing, query, owed, dropped, deaths>>

Id == 1 .. MaxEntries
Absent == [is |-> "absent"]
Blank == [is |-> "blank"]      \* created, not yet filled
Whole(entry) == [is |-> "whole", entry |-> entry]

User == "user"                \* `omh memory add` and `omh memory forget`
Process == Recaller \cup Consolidation
Writers == Process \cup {User}

MemTypeOK ==
  /\ \A i \in Id : \/ entries[i] \in {Absent, Blank}
                   \/ entries[i].is = "whole" /\ entries[i].entry \in Texts
  /\ used \in 0 .. MaxEntries
  /\ doing \in [Writers -> {"nothing", "recall", "recalled", "list", "merge", "write", "forget"}]
  /\ names \in [Process -> SUBSET Id] /\ removing \in [Process -> SUBSET Id]
  /\ \A p \in Process : \A x \in found[p] : x.id \in Id /\ x.entry \in Texts
  /\ \A p \in Writers : \A x \in writing[p] : x.id \in Id /\ x.entry \in Texts
  /\ query \in [Process -> SUBSET Fact]
  /\ owed \in SUBSET Fact /\ dropped \in SUBSET Fact /\ deaths \in 0 .. MaxDeaths

MemInit ==
  /\ entries = [i \in Id |-> Absent] /\ used = 0
  /\ doing = [p \in Writers |-> "nothing"]
  /\ names = [p \in Process |-> {}] /\ removing = [p \in Process |-> {}]
  /\ found = [p \in Process |-> {}]
  /\ writing = [p \in Writers |-> {}] /\ query = [p \in Process |-> {}]
  /\ owed = {} /\ dropped = {} /\ deaths = 0

Stored(i) == entries[i].is = "whole"
Listed == {i \in Id : entries[i] # Absent}
------------------------------------------------------------------------------
(***************************************************************************)
(* write_entry: fs::write creates the file and then fills it.              *)
(***************************************************************************)
Creates(p, entry) ==
  /\ used < MaxEntries
  /\ used' = used + 1
  /\ entries' = [entries EXCEPT ![used'] = Blank]
  /\ writing' = [writing EXCEPT ![p] = {[id |-> used', entry |-> entry]}]

\* An add of the user is owed from here; a merge goes on to forget.
Fills(p) ==
  /\ doing[p] = "write"
  /\ \E w \in writing[p] :
       /\ entries' = [entries EXCEPT ![w.id] = Whole(w.entry)]
       /\ owed' = IF p = User THEN owed \cup w.entry.facts ELSE owed
  /\ writing' = [writing EXCEPT ![p] = {}]
  /\ doing' = [doing EXCEPT ![p] = IF p = User THEN "nothing" ELSE "forget"]
  /\ UNCHANGED <<used, names, removing, found, query, dropped, deaths>>

\* omh memory add: the text as it was typed.
AddMemory(text) ==
  /\ doing[User] = "nothing"
  /\ Creates(User, text)
  /\ doing' = [doing EXCEPT ![User] = "write"]
  /\ UNCHANGED <<names, removing, found, query, owed, dropped, deaths>>

\* omh memory forget, omh evolution revert: find_entry must be able to read the file.  One
\* that is gone when it is to be removed is an error too, and nothing has been forgotten.
ForgetMemory(i) ==
  /\ doing[User] = "nothing" /\ Stored(i)
  /\ entries' = [entries EXCEPT ![i] = Absent]
  /\ owed' = owed \ entries[i].entry.facts
  /\ query' = [p \in Process |-> query[p] \ entries[i].entry.facts]
  /\ UNCHANGED <<used, doing, names, removing, found, writing, dropped, deaths>>
------------------------------------------------------------------------------
(***************************************************************************)
(* all_entries: the names, then one file after the other.                  *)
(***************************************************************************)
AfterReading(what, left) ==
  IF left # {} THEN what ELSE IF what = "recall" THEN "recalled" ELSE "merge"

BeginRecall(p) ==
  /\ doing[p] = "nothing"
  /\ doing' = [doing EXCEPT ![p] = AfterReading("recall", Listed)]
  /\ names' = [names EXCEPT ![p] = Listed]
  /\ found' = [found EXCEPT ![p] = {}]
  /\ query' = [query EXCEPT ![p] = owed \ dropped]
  /\ UNCHANGED <<entries, used, removing, writing, owed, dropped, deaths>>

BeginConsolidate(p) ==
  /\ doing[p] = IF p \in Recaller THEN "recalled" ELSE "nothing"
  /\ doing' = [doing EXCEPT ![p] = AfterReading("list", Listed)]
  /\ names' = [names EXCEPT ![p] = Listed]
  /\ found' = [found EXCEPT ![p] = {}]
  /\ query' = [query EXCEPT ![p] = {}]
  /\ UNCHANGED <<entries, used, removing, writing, owed, dropped, deaths>>

\* Mutant: a file that is gone or half written is passed over.
NeverGivesUp(i) == FALSE

\* read_entry: a file that is gone, or empty, is an error; it ends the turn or the
\* consolidation.  find_entry, before a file is removed, reads it too, and the removal of
\* one that is gone by then fails as well.
GivesUp(i) == ~ Stored(i)

Stops(p) ==
  /\ doing' = [doing EXCEPT ![p] = "nothing"]
  /\ names' = [names EXCEPT ![p] = {}] /\ removing' = [removing EXCEPT ![p] = {}]
  /\ found' = [found EXCEPT ![p] = {}] /\ query' = [query EXCEPT ![p] = {}]
  /\ UNCHANGED <<entries, used, writing, owed, dropped, deaths>>

ReadEntry(p, i) ==
  /\ doing[p] \in {"recall", "list"} /\ i \in names[p]
  /\ \/ GivesUp(i) /\ Stops(p)
     \/ /\ ~ GivesUp(i)
        /\ names' = [names EXCEPT ![p] = @ \ {i}]
        /\ found' = [found EXCEPT ![p] = @ \cup
             {[id |-> j, entry |-> entries[j].entry] : j \in {k \in {i} : Stored(k)}}]
        /\ doing' = [doing EXCEPT ![p] = AfterReading(@, names'[p])]
        /\ UNCHANGED <<entries, used, removing, writing, query, owed, dropped, deaths>>
------------------------------------------------------------------------------
(***************************************************************************)
(* consolidate, from the entries as they were read.                        *)
(***************************************************************************)
Length(entry) == Cardinality(entry.facts) + (IF entry.padded THEN Cardinality(Fact) ELSE 0)

\* contents_overlap
Overlap(e, f) == e.facts \subseteq f.facts \/ f.facts \subseteq e.facts

Longest(xs) == {x \in xs : \A y \in xs : Length(x.entry) >= Length(y.entry)}

\* What the texts of xs state between them.
States(xs) == UNION {x.entry.facts : x \in xs}

\* Mutant: the text of any of them, as the source is taken from the best.
AnyOf(xs) == {x.entry : x \in xs}

\* build_merged_entry: of equally long texts the last, by times that are left out.
Merged(xs) == {x.entry : x \in Longest(xs)}

MergeNext(p) ==
  /\ doing[p] = "merge"
  /\ \E x \in Longest(found[p]) :
       LET cluster == {y \in found[p] : Overlap(x.entry, y.entry)} IN
       /\ found' = [found EXCEPT ![p] = @ \ cluster]
       /\ \/ /\ cluster = {x}
             /\ UNCHANGED <<entries, used, doing, names, writing, dropped>>
          \/ /\ cluster # {x}
             /\ \E e \in Merged(cluster) :
                  /\ Creates(p, e)
                  /\ dropped' = dropped \cup
                       IF e.padded THEN States(cluster) \ e.facts ELSE {}
             /\ names' = [names EXCEPT ![p] = {y.id : y \in cluster}]
             /\ doing' = [doing EXCEPT ![p] = "write"]
  /\ UNCHANGED <<removing, query, owed, deaths>>

\* forget: find_entry and then remove_file, of the merged entries in any order; the code
\* has them by length.
FindMerged(p, i) ==
  /\ doing[p] = "forget" /\ i \in names[p] /\ removing[p] = {}
  /\ \/ GivesUp(i) /\ Stops(p)
     \/ /\ ~ GivesUp(i)
        /\ removing' = [removing EXCEPT ![p] = {i}]
        /\ UNCHANGED <<entries, used, doing, names, found, writing, query, owed, dropped, deaths>>

ForgetMerged(p, i) ==
  /\ doing[p] = "forget" /\ i \in names[p] \cap removing[p]
  /\ \/ GivesUp(i) /\ Stops(p)
     \/ /\ ~ GivesUp(i)
        /\ entries' = [entries EXCEPT ![i] = Absent]
        /\ names' = [names EXCEPT ![p] = @ \ {i}] /\ removing' = [removing EXCEPT ![p] = {}]
        /\ doing' = [doing EXCEPT ![p] = IF names'[p] = {} THEN "merge" ELSE @]
        /\ UNCHANGED <<used, found, writing, query, owed, dropped, deaths>>

MemoryDone(p) ==
  /\ \/ doing[p] = "merge" /\ found[p] = {}
     \/ doing[p] = "recalled"      \* most turns do not consolidate
  /\ Stops(p)

\* The process ends, wherever it is; what it was writing stays empty.
Dies(p) ==
  /\ doing[p] # "nothing" /\ deaths < MaxDeaths
  /\ deaths' = deaths + 1
  /\ doing' = [doing EXCEPT ![p] = "nothing"]
  /\ writing' = [writing EXCEPT ![p] = {}]
  /\ names' = [q \in Process |-> IF q = p THEN {} ELSE names[q]]
  /\ removing' = [q \in Process |-> IF q = p THEN {} ELSE removing[q]]
  /\ found' = [q \in Process |-> IF q = p THEN {} ELSE found[q]]
  /\ query' = [q \in Process |-> IF q = p THEN {} ELSE query[q]]
  /\ UNCHANGED <<entries, used, owed, dropped>>

MemNext ==
  \/ \E text \in Texts : AddMemory(text)
  \/ \E p \in Recaller : BeginRecall(p)
  \/ \E i \in Id :
       \/ ForgetMemory(i)
       \/ \E p \in Process : ReadEntry(p, i) \/ FindMerged(p, i) \/ ForgetMerged(p, i)
  \/ \E p \in Process :
       \/ BeginConsolidate(p)
       \/ MergeNext(p)
       \/ MemoryDone(p)
  \/ \E p \in Writers : Fills(p) \/ Dies(p)

MemSpec == MemInit /\ [][MemNext]_memVars
------------------------------------------------------------------------------
(***************************************************************************)
(* Properties.                                                             *)
(***************************************************************************)
\* What the user has added and not forgotten is in some whole entry that turns are
\* given, however many consolidations run at once and wherever they are killed: the
\* merged text is on disk before the texts it replaces go.  One thing can be lost:
\* what is missing from a text that was the longest for its whitespace only.
NothingLost ==
  owed \ dropped \subseteq States({entries[i] : i \in {j \in Id : Stored(j)}})

\* A recall beside adds, forgets and merges fails rather than miss an entry: a turn
\* whose recall succeeds is given all it asked for that was stored when it began and
\* has not been forgotten since.
RecallIsWhole ==
  \A p \in Process : doing[p] = "recalled" =>
    query[p] \ dropped \subseteq States(found[p])
=============================================================================
