------------------------------- MODULE Detection -------------------------------
(***************************************************************************)
(* Project detection: what `detector.Discover` makes of a directory and    *)
(* the directories one level below it.  The disk is a function from the    *)
(* directories that exist to what their own files show.                    *)
(***************************************************************************)
EXTENDS Integers, FiniteSets

CONSTANTS
    Dirs,      \* directories of this instance
    Parent,    \* Dirs -> Dirs \cup {NoDir}
    NoDir,
    Hidden     \* directories Discover skips: dot names and node_modules

VARIABLE disk  \* existing directory -> marks its own files leave

Feature == {"laravel", "node", "vue", "python", "flask", "go", "docker"}

\* `manifest` is .devherd.yml; `broken` a package.json that does not parse.
Mark == Feature \cup {"manifest", "broken"}

ASSUME DetectionConstants ==
    /\ NoDir \notin Dirs
    /\ Parent \in [Dirs -> Dirs \cup {NoDir}]
    /\ Hidden \subseteq Dirs

Existing == DOMAIN disk

Subdirectories(d) == {c \in Existing \ Hidden : Parent[c] = d}

\* A Dockerfile or compose file only counts in the directory itself.
Features(d) ==
    (disk[d] \cap Feature) \cup
    UNION {(disk[c] \cap Feature) \ {"docker"} : c \in Subdirectories(d)}

\* One unreadable package.json fails the detection of the directory.
Unreadable(d) == \E c \in {d} \cup Subdirectories(d) : "broken" \in disk[c]

Candidates(root) == {root} \cup Subdirectories(root)

DiscoverFails(root) == \E d \in Candidates(root) : Unreadable(d)

OwnsChildren(d) == disk[d] \cap {"docker", "manifest"} # {}

\* A root with its own compose file or manifest takes its children with it.
Discover(root) ==
    LET found == {d \in Candidates(root) : Features(d) # {}}
    IN IF Cardinality(found) > 1 /\ OwnsChildren(root)
       THEN found \cap {root}
       ELSE found

Precedence == <<"laravel", "vue", "flask", "python", "go", "node", "docker">>

Frameworks == {Precedence[i] : i \in DOMAIN Precedence} \cup {"vue+flask", "unknown"}

Framework(features) ==
    IF {"vue", "flask"} \subseteq features THEN "vue+flask"
    ELSE LET named == {i \in DOMAIN Precedence : Precedence[i] \in features}
         IN IF named = {} THEN "unknown"
            ELSE Precedence[CHOOSE i \in named : \A j \in named : i <= j]
===============================================================================
