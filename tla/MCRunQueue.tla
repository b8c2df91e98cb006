----------------------------- MODULE MCRunQueue -----------------------------
EXTENDS RunQueue, TLC

\* A build with the given graph and no peculiarities
Plain(T, S, dep, tgt) ==
  [tasks |-> T, setscene |-> S, targets |-> tgt, depends |-> dep,
   harddeps |-> [s \in S |-> {}], fn |-> [t \in T |-> t], hash |-> [t \in T |-> t],
   name |-> [t \in T |-> t], noexec |-> {}, stamps |-> {}, sstamps |-> {},
   limited |-> {}, ignored |-> {}, depvalid |-> S,
   threads |-> 2, halt |-> TRUE, force |-> FALSE, setsceneonly |-> FALSE,
   skipsetscene |-> FALSE, enforce |-> FALSE]

\* Each with and without -k, those of BB_SETSCENE_ENFORCE only without
GoingOn(B) == B \cup {[b EXCEPT !.halt = FALSE] : b \in {b \in B : ~b.enforce}}

\* A package (4) compiled (3) against a library (2) compiled (1), in an image (5)
Library ==
  Plain(1..5, {2, 4}, 1 :> {} @@ 2 :> {1} @@ 3 :> {2} @@ 4 :> {3} @@ 5 :> {4}, {5})

\* The same with every way of running it
Settings ==
  {[Library EXCEPT !.skipsetscene = TRUE], [Library EXCEPT !.setsceneonly = TRUE],
   [Library EXCEPT !.force = TRUE, !.targets = {4}], [Library EXCEPT !.depvalid = {}],
   [Library EXCEPT !.targets = {2, 5}], [Library EXCEPT !.targets = {3, 5}],
   [Library EXCEPT !.enforce = TRUE], [Library EXCEPT !.enforce = TRUE, !.ignored = {1, 2, 4}]}

\* The same after an earlier build, in part or with tasks that do nothing
Stamps ==
  {[Library EXCEPT !.stamps = {1}, !.noexec = {3}], [Library EXCEPT !.sstamps = {2}],
   [Library EXCEPT !.stamps = {1, 2}, !.fn = 1 :> 1 @@ 2 :> 1 @@ 3 :> 3 @@ 4 :> 3 @@ 5 :> 5],
   [Library EXCEPT !.noexec = {2}], [Library EXCEPT !.sstamps = {4}, !.noexec = {5}]}

\* A library compiled (1) for its sysroot (2) and its package (3); a program
\* compiled (4) against it and packaged (5); the image (6)
Recipe ==
  Plain(1..6, {2, 3, 5},
    1 :> {} @@ 2 :> {1} @@ 3 :> {1} @@ 4 :> {2} @@ 5 :> {4} @@ 6 :> {3, 5}, {6})

\* Two packages (3, 5) share a library (2); one of them also needs the other's sources
Shared ==
  Plain(1..6, {2, 3, 5},
    1 :> {} @@ 2 :> {1} @@ 3 :> {2} @@ 4 :> {2} @@ 5 :> {4} @@ 6 :> {3, 5}, {6})

\* A package's setscene task needs the library's restored (or failed) first
Hard == [Shared EXCEPT !.harddeps = 2 :> {} @@ 3 :> {2} @@ 5 :> {2}]

\* A task of one recipe in three configurations (2, 4, 5), and an image
SameHash ==
  [Plain(1..6, {2, 4, 5}, 1 :> {} @@ 2 :> {1} @@ 3 :> {} @@ 4 :> {3} @@ 5 :> {} @@ 6 :> {2, 4, 5}, {6})
     EXCEPT !.hash = [t \in 1..6 |-> IF t \in {2, 4, 5} THEN 2 ELSE t]]

\* No setscene task at all
NoScene == Plain(1..4, {}, 1 :> {} @@ 2 :> {} @@ 3 :> {} @@ 4 :> {1, 2, 3}, {4})

\* The same with a name that is limited to one task at a time
Limited == [NoScene EXCEPT !.name = 1 :> 1 @@ 2 :> 1 @@ 3 :> 3 @@ 4 :> 4, !.limited = {1}]

\* A package (3) whose setscene task needs a library (1) that only another one (2)
\* uses to be built
Hidden ==
  [Plain(1..4, 1..3, 1 :> {} @@ 2 :> {1} @@ 3 :> {} @@ 4 :> {2, 3}, {4})
     EXCEPT !.harddeps = 1 :> {} @@ 2 :> {} @@ 3 :> {1}]
MCHidden == {Hidden}

MCBuilds ==
  GoingOn({Library} \cup Settings \cup Stamps
            \cup {Hard, Hidden, SameHash, [SameHash EXCEPT !.sstamps = {4}], NoScene, Limited})
  \cup {Shared, [Recipe EXCEPT !.halt = FALSE]}

\* The graphs of these builds, and of those below, are as the code expects them
ASSUME SoundBuilds == Sound

\* A task in four configurations (1 to 4), one of them restored before; an image
Duplicates ==
  [Plain(1..5, 1..4, 1 :> {} @@ 2 :> {} @@ 3 :> {} @@ 4 :> {} @@ 5 :> 1..4, {5})
     EXCEPT !.hash = [t \in 1..5 |-> IF t < 5 THEN 1 ELSE t], !.sstamps = {2}]
MCDuplicates == {Duplicates}

\* The native tool of either configuration (1, 2) restores what packaging the
\* recipe (3, 4) and another one (5) needs to be restored; an image (6)
Twins ==
  [Plain(1..6, 1..5, 1 :> {} @@ 2 :> {} @@ 3 :> {1} @@ 4 :> {2} @@ 5 :> {2} @@ 6 :> {3, 4, 5}, {6})
     EXCEPT !.harddeps = 1 :> {} @@ 2 :> {} @@ 3 :> {1} @@ 4 :> {2} @@ 5 :> {2},
            !.hash = 1 :> 1 @@ 2 :> 1 @@ 3 :> 3 @@ 4 :> 3 @@ 5 :> 5 @@ 6 :> 6]
MCTwins == {Twins}

\* One task in two configurations (2, 3), both executed anyway
Forced ==
  [Plain(1..4, {2, 3}, 1 :> {} @@ 2 :> {1} @@ 3 :> {1} @@ 4 :> {2, 3}, {4})
     EXCEPT !.hash = 1 :> 1 @@ 2 :> 2 @@ 3 :> 2 @@ 4 :> 4]
MCForced == {Forced}
=============================================================================
