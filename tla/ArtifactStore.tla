---------------------------- MODULE ArtifactStore ----------------------------
(***************************************************************************)
(* What the artifact repository promises its callers: a set of installed   *)
(* artifacts and a table of references into it, each operation a single    *)
(* step.  Locks, journals, kills and failed writes do not show.            *)
(***************************************************************************)
CONSTANTS Artifacts, Tags, Absent

VARIABLES installed, tags

storeVars == <<installed, tags>>

StoreInit ==
    /\ installed = {}
    /\ tags = [t \in Tags |-> Absent]

\* Pack or pull: the artifact and its reference appear together, and a
\* reference to another artifact is never moved.
Install(d, t) ==
    /\ installed' = installed \cup {d}
    /\ \/ t = Absent /\ tags' = tags
       \/ t \in Tags /\ tags[t] \in {Absent, d} /\ tags' = [tags EXCEPT ![t] = d]

\* Compare-and-swap of one reference to an installed artifact
Retarget(t, d) ==
    /\ d \in installed
    /\ tags' = [tags EXCEPT ![t] = d]
    /\ UNCHANGED installed

Untag(t) ==
    /\ tags' = [tags EXCEPT ![t] = Absent]
    /\ UNCHANGED installed

\* Garbage collection takes only what no reference reaches.
Collect(d) ==
    /\ \A t \in Tags : tags[t] # d
    /\ installed' = installed \ {d}
    /\ UNCHANGED tags

StoreNext ==
    \/ \E d \in Artifacts : Collect(d) \/ \E t \in Tags \cup {Absent} : Install(d, t)
    \/ \E t \in Tags : Untag(t) \/ \E d \in Artifacts : Retarget(t, d)

StoreSpec == StoreInit /\ [][StoreNext]_storeVars
=============================================================================
