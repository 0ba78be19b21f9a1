------------------------------- MODULE Bootstrap -------------------------------
(***************************************************************************)
(* The bootstrap of a worktree: symbolic links that must not be there are  *)
(* removed, then files are copied from the main checkout, each behind its  *)
(* guards (src/src/bootstrap.rs).  Programs at work in the worktree and in *)
(* the main checkout create, link and edit files between any two steps.    *)
(*                                                                         *)
(* A file is known by what the properties tell apart: "clean" or "secret"  *)
(* as a guard sees it, "opaque" (what one denies, in a file that is not    *)
(* UTF-8 text, so that none can read it), "example", "inline", somebody    *)
(* else's ("theirs"), a link.  A name in a copy's list of guards is that   *)
(* of one whose patterns match what is secret ("known"), of one whose      *)
(* patterns do not ("other"), or of none there is ("undefined").  The      *)
(* directory a file is copied into is in the worktree, or a link that      *)
(* leads out of it.                                                        *)
(***************************************************************************)
EXTENDS Naturals, Sequences

CONSTANTS
    Targets,        \* files of the worktree
    Copies,         \* the [[bootstrap.copy]] steps a file may ask for
    Windows,           \* of {"source", "parent"}: where others come in between
    MaxCopies,      \* bound: copies of one bootstrap
    MaxWrites       \* bound: what others do

VARIABLES
    source,     \* the files of the main checkout, by target
    there,      \* what is at each target
    outside,    \* what was written outside the worktree
    parent,     \* "inside" or "outside": where the targets' directory leads
    copies, at, \* the copies, and the one under way
    phase, read,   \* the step, and what was read of the source
    writes

boot == <<copies, at, phase, read>>
bvars == <<source, there, outside, parent, boot, writes>>

Sources == {"none", "clean", "secret", "opaque"}
Contents == {"clean", "secret", "opaque", "example", "inline"}
Steps == {"links", "check", "source", "guard", "example", "inline", "copy", "write", "done"}

BootTypeOK ==
    /\ source \in [Targets -> Sources]
    /\ there \in [Targets -> Contents \cup {"none", "link", "theirs"}]
    /\ outside \subseteq Targets
    /\ parent \in {"inside", "outside"}
    /\ copies \in Seq(Copies) /\ at \in 1 .. Len(copies) + 1
    /\ phase \in Steps
    /\ read \in Contents \cup {"none"}
    /\ writes \in 0 .. MaxWrites

BootInit ==
    /\ source \in [Targets -> Sources]
    /\ there \in [Targets -> {"none", "link", "theirs"}]
    /\ outside = {}
    /\ parent = "inside"
    /\ copies \in UNION {[1 .. n -> Copies] : n \in 1 .. MaxCopies}
    /\ at = 1 /\ phase = "links" /\ read = "none"
    /\ writes = 0

\* Nothing is going on here.
BootRest ==
    /\ source = [t \in Targets |-> "none"] /\ there = source
    /\ outside = {} /\ parent = "inside"
    /\ copies = <<>> /\ at = 1 /\ phase = "done" /\ read = "none" /\ writes = 0

This == copies[at]

Go(step) == phase' = step /\ UNCHANGED <<copies, at, read>>

\* The line of the report is written, and the next copy taken up.
NextCopy ==
    /\ at' = at + 1 /\ read' = "none"
    /\ phase' = IF at = Len(copies) THEN "done" ELSE "check"
    /\ UNCHANGED copies

-----------------------------------------------------------------------------
\* run_no_symlinks: a link at a path that must be real is removed, one by one, in
\* front of the copies; removing may fail.
RemoveLinks(named) ==
    /\ phase = "links"
    /\ there' = [t \in Targets |->
                    IF t \in named /\ there[t] = "link" THEN "none" ELSE there[t]]
    /\ Go("check")
    /\ UNCHANGED <<source, outside, parent, writes>>

\* ensure_within, then one look at the destination.
CheckTarget ==
    /\ phase = "check"
    /\ IF parent = "outside" \/ there[This.to] # "none" THEN NextCopy ELSE Go("source")
    /\ UNCHANGED <<source, there, outside, parent, writes>>

\* No source: the fallback is written, or the step fails or is skipped.
CheckSource ==
    /\ phase = "source"
    /\ IF source[This.from] # "none" THEN Go("guard")
       ELSE IF This.fallback = "inline"
       THEN phase' = "write" /\ read' = "inline" /\ UNCHANGED <<copies, at>>
       ELSE NextCopy
    /\ UNCHANGED <<source, there, outside, parent, writes>>

\* Slip in Trips: a list of guards read from its second name.
TripsPastFirst(guards, content) ==
    \E i \in 2 .. Len(guards) : guards[i] = "known" /\ content = "secret"

\* guard_match: the guards match in turn.  A source that is no text has no match,
\* and neither has any from the first name on that no guard is defined for.
Trips(guards, content) ==
    \E i \in 1 .. Len(guards) :
        /\ guards[i] = "known" /\ content = "secret"
        /\ \A k \in 1 .. i : guards[k] # "undefined"

CheckGuards ==
    /\ phase = "guard"
    /\ IF ~ Trips(This.guards, source[This.from]) THEN Go("copy")
       ELSE IF This.onMatch = "seed-from-example" THEN Go("example")
       ELSE NextCopy
    /\ UNCHANGED <<source, there, outside, parent, writes>>

\* The example is copied in its place, if there is one.
SeedExample ==
    /\ phase = "example"
    /\ \/ phase' = "write" /\ read' = "example" /\ UNCHANGED <<copies, at>>
       \/ NextCopy
    /\ UNCHANGED <<source, there, outside, parent, writes>>

\* copy_no_follow opens the source again, by name.
ReadSource ==
    /\ phase = "copy"
    /\ IF source[This.from] = "none" THEN NextCopy
       ELSE phase' = "write" /\ read' = source[This.from] /\ UNCHANGED <<copies, at>>
    /\ UNCHANGED <<source, there, outside, parent, writes>>

\* Slip in Creates: fs::write, which replaces.
Replaces(t) == there[t] # "link"

\* write_no_follow: created, and never followed or replaced.
Creates(t) == there[t] = "none"

Write ==
    /\ phase = "write"
    /\ IF parent = "outside"
       THEN outside' = outside \cup {This.to} /\ UNCHANGED there
       ELSE /\ there' = IF Creates(This.to) THEN [there EXCEPT ![This.to] = read] ELSE there
            /\ UNCHANGED outside
    /\ NextCopy
    /\ UNCHANGED <<source, parent, writes>>

-----------------------------------------------------------------------------
\* The others: in the worktree, and in the main checkout.
OthersWrite == writes < MaxWrites /\ writes' = writes + 1 /\ UNCHANGED <<boot, outside>>

Appears(t) ==
    /\ OthersWrite /\ there[t] = "none"
    /\ there' \in {[there EXCEPT ![t] = "theirs"], [there EXCEPT ![t] = "link"]}
    /\ UNCHANGED <<source, parent>>

EditSource(t) ==
    /\ OthersWrite
    /\ phase = "copy" => "source" \in Windows
    /\ source' \in {[source EXCEPT ![t] = c] : c \in Sources}
    /\ source' # source
    /\ UNCHANGED <<there, parent>>

Redirect ==
    /\ OthersWrite
    /\ phase \notin {"links", "check", "done"} => "parent" \in Windows
    /\ parent = "inside" /\ parent' = "outside"
    /\ UNCHANGED <<source, there>>

BootNext ==
    \/ \E named \in SUBSET Targets : RemoveLinks(named)
    \/ CheckTarget \/ CheckSource \/ CheckGuards \/ SeedExample \/ ReadSource \/ Write
    \/ \E t \in Targets : Appears(t) \/ EditSource(t)
    \/ Redirect

BootSpec == BootInit /\ [][BootNext]_bvars

-----------------------------------------------------------------------------
\* A list that names a guard which denies the file, before any undefined one.
Denies(guards) ==
    \E k \in 1 .. Len(guards) :
        guards[k] = "known" /\ \A j \in 1 .. k - 1 : guards[j] # "undefined"

\* A secret that can be read as text comes to a target only by a copy whose list
\* has no guard that denies it in front of the first undefined name, and nothing
\* is written outside the worktree (guard_match, ensure_within).  Two kinds of
\* file it lets through, as the code does: what a guard behind an undefined name
\* denies, and what is not UTF-8 (TypedGuardsCount and EveryFileIsVetted below).
GuardedStaysOut ==
    /\ \A t \in Targets : there[t] = "secret" =>
          \E i \in 1 .. Len(copies) : copies[i].to = t /\ ~ Denies(copies[i].guards)
    /\ outside = {}

\* The names of a list.
Names(guards) == {guards[k] : k \in DOMAIN guards}

\* As the documentation has it, a match anywhere in the list stops the file,
\* whatever other name of the list is mistyped.  The code does not: the first
\* name it does not know ends the list (bootstrap.rs, 284-287).
TypedGuardsCount ==
    \A t \in Targets : there[t] = "secret" =>
        \E i \in 1 .. Len(copies) : copies[i].to = t /\ "known" \notin Names(copies[i].guards)

\* As the documentation has it, each copied file is vetted, and a match anywhere
\* in it is flagged.  The code does not: what read_to_string refuses has no match,
\* and the copy, which reads bytes, goes on (bootstrap.rs, 281-283).
EveryFileIsVetted ==
    \A t \in Targets : there[t] = "opaque" =>
        \E i \in 1 .. Len(copies) : copies[i].to = t /\ ~ Denies(copies[i].guards)

\* Nothing that is at a destination is replaced, or written through a link, however
\* late it came there (create_new, O_NOFOLLOW).
TheirsStays ==
    [][\A t \in Targets : there[t] # "none" => there'[t] \in {there[t]} \cup
          (IF phase = "links" /\ there[t] = "link" THEN {"none"} ELSE {})]_bvars
=============================================================================
